---- MODULE Spec2Model ----
(***************************************************************************)
(* StreamNotes (markdown-notes): the virtual file system kept by App.tsx   *)
(* and utils/fsHelpers.ts.  Items are records held in one flat sequence    *)
(* (the React state `fileSystem`); handlers are modelled with the closure  *)
(* they capture at the render they are issued from, and every await on a   *)
(* backend call is a point where other handlers may run.                   *)
(*                                                                         *)
(* Strings are sequences of one-character strings, so that toLowerCase,    *)
(* endsWith, lastIndexOf, template formatting and the regular expression   *)
(* test are computed, not assumed.                                         *)
(***************************************************************************)
EXTENDS Integers, Sequences, FiniteSets, TLC

(***************************************************************************)
(* Bounds of the model                                                     *)
(***************************************************************************)
\* number of user intents (handler invocations) issued in one behaviour
MaxOps == 3
\* number of handlers that may be suspended on a backend call at once
MaxPending == 2
\* size of the collections deleteItemRecursive is applied to in SpecDelete
MaxDelItems == 3
MaxScanEntries == 4
MaxSortItems == 3
MaxTreeItems == 3

(***************************************************************************)
(* Strings                                                                 *)
(***************************************************************************)
\* the value of an absent (undefined) string field
Undef == <<"undefined">>

UpperLetters ==
  << "A", "B", "C", "D", "E", "F", "G", "H", "I", "J", "K", "L", "M",
     "N", "O", "P", "Q", "R", "S", "T", "U", "V", "W", "X", "Y", "Z" >>

LowerLetters ==
  << "a", "b", "c", "d", "e", "f", "g", "h", "i", "j", "k", "l", "m",
     "n", "o", "p", "q", "r", "s", "t", "u", "v", "w", "x", "y", "z" >>

\* String.prototype.toLowerCase on one character
LowerChar(c) ==
  IF \E i \in 1..26 : UpperLetters[i] = c
    THEN LowerLetters[CHOOSE i \in 1..26 : UpperLetters[i] = c]
    ELSE c

toLowerCase(s) == [i \in 1..Len(s) |-> LowerChar(s[i])]

endsWith(s, suffix) ==
  /\ Len(suffix) <= Len(s)
  /\ SubSeq(s, Len(s) - Len(suffix) + 1, Len(s)) = suffix

startsWith(s, prefix) ==
  /\ Len(prefix) <= Len(s)
  /\ SubSeq(s, 1, Len(prefix)) = prefix

\* String.prototype.lastIndexOf(c), 0-based, -1 when absent
lastIndexOf(s, c) ==
  IF \E i \in 1..Len(s) : s[i] = c
    THEN (CHOOSE i \in 1..Len(s) : s[i] = c /\ \A j \in (i+1)..Len(s) : s[j] # c) - 1
    ELSE -1

\* t occurs in s as a literal substring
includes(s, t) ==
  \E i \in 0..(Len(s) - Len(t)) : SubSeq(s, i + 1, i + Len(t)) = t

RECURSIVE trimStart(_)
trimStart(s) == IF s # <<>> /\ Head(s) = " " THEN trimStart(Tail(s)) ELSE s

RECURSIVE trimEnd(_)
trimEnd(s) ==
  IF s # <<>> /\ s[Len(s)] = " " THEN trimEnd(SubSeq(s, 1, Len(s) - 1)) ELSE s

\* String.prototype.trim, for the blank
trim(s) == trimEnd(trimStart(s))

DigitChar(d) ==
  CASE d = 0 -> "0" [] d = 1 -> "1" [] d = 2 -> "2" [] d = 3 -> "3"
    [] d = 4 -> "4" [] d = 5 -> "5" [] d = 6 -> "6" [] d = 7 -> "7"
    [] d = 8 -> "8" [] OTHER -> "9"

RECURSIVE NumToString(_)
\* `${count}` : decimal digits of a positive number
NumToString(n) ==
  IF n < 10 THEN <<DigitChar(n)>>
  ELSE NumToString(n \div 10) \o <<DigitChar(n % 10)>>

\* ` (${count})`
CountSuffix(count) == <<" ", "(">> \o NumToString(count) \o <<")">>

\* the collation of String.prototype.localeCompare on the characters the
\* names are made of: punctuation, digits, letters; any other character
\* (a CJK syllable) after them
CollationOrder ==
  << " ", "(", ")", ".", "0", "1", "2", "3", "4", "5", "6", "7", "8", "9",
     "a", "b", "c", "d", "e", "f", "g", "h", "i", "j", "k", "l", "m", "n",
     "o", "p", "q", "r", "s", "t", "u", "v", "w", "x", "y", "z" >>

CollationRank(c) ==
  IF \E i \in 1..Len(CollationOrder) : CollationOrder[i] = LowerChar(c)
    THEN CHOOSE i \in 1..Len(CollationOrder) : CollationOrder[i] = LowerChar(c)
    ELSE Len(CollationOrder) + 1

RECURSIVE PrimaryCompare(_, _)
\* the comparison of the letters, case put aside
PrimaryCompare(a, b) ==
  IF a = <<>> /\ b = <<>> THEN 0
  ELSE IF a = <<>> THEN -1
  ELSE IF b = <<>> THEN 1
  ELSE IF CollationRank(Head(a)) < CollationRank(Head(b)) THEN -1
  ELSE IF CollationRank(Head(a)) > CollationRank(Head(b)) THEN 1
  ELSE PrimaryCompare(Tail(a), Tail(b))

RECURSIVE CaseCompare(_, _)
\* the tie-break of names equal up to case: lower case first
CaseCompare(a, b) ==
  IF a = <<>> \/ b = <<>> THEN 0
  ELSE IF Head(a) = Head(b) THEN CaseCompare(Tail(a), Tail(b))
  ELSE IF Head(a) = LowerChar(Head(a)) THEN -1
  ELSE 1

\* a.localeCompare(b)
localeCompare(a, b) ==
  IF PrimaryCompare(a, b) # 0 THEN PrimaryCompare(a, b) ELSE CaseCompare(a, b)

(***************************************************************************)
(* Items (types.ts FileSystemItem).  parentId 0 is null, handle 0 is       *)
(* undefined, content Undef is undefined.                                  *)
(***************************************************************************)
MkItem(id, parentId, name, type, content, isLoaded, handle, isOpen) ==
  [id |-> id, parentId |-> parentId, name |-> name, type |-> type,
   content |-> content, isLoaded |-> isLoaded, handle |-> handle,
   isOpen |-> isOpen]

\* Array.prototype.some / find by id
HasId(items, id) == \E i \in 1..Len(items) : items[i].id = id

FindItem(items, id) ==
  items[CHOOSE i \in 1..Len(items) :
          items[i].id = id /\ \A j \in 1..(i-1) : items[j].id # id]

IdSet(items) == {items[i].id : i \in 1..Len(items)}

(***************************************************************************)
(* utils/fsHelpers.ts                                                      *)
(***************************************************************************)
\* a slip of the comparator: the kinds are not looked at
CompareNames(a, b) == localeCompare(a.name, b.name)

\* the comparator of sortFileSystem
CompareItems(a, b) ==
  IF a.type # b.type THEN (IF a.type = "folder" THEN -1 ELSE 1)
  ELSE localeCompare(a.name, b.name)

RECURSIVE InsertSorted(_, _)
\* x put before the first element it is smaller than
InsertSorted(sorted, x) ==
  IF sorted = <<>> THEN <<x>>
  ELSE IF CompareItems(x, Head(sorted)) < 0 THEN <<x>> \o sorted
  ELSE <<Head(sorted)>> \o InsertSorted(Tail(sorted), x)

RECURSIVE SortFrom(_, _)
SortFrom(sorted, items) ==
  IF items = <<>> THEN sorted
  ELSE SortFrom(InsertSorted(sorted, Head(items)), Tail(items))

\* [...items].sort(comparator): Array.prototype.sort is stable
sortFileSystem(items) == SortFrom(<<>>, items)

getChildItems(items, parentId) ==
  sortFileSystem(SelectSeq(items, LAMBDA item : item.parentId = parentId))

RECURSIVE deleteItemRecursive(_, _)
RECURSIVE DeleteChildren(_, _)

\* the forEach of deleteItemRecursive: newItems threaded through the children
DeleteChildren(newItems, children) ==
  IF children = <<>> THEN newItems
  ELSE DeleteChildren(deleteItemRecursive(newItems, Head(children).id),
                      Tail(children))

\* a slip of the recursion: the children of a folder are left in place
deleteItemShallow(items, itemId) ==
  SelectSeq(items, LAMBDA i : i.id # itemId)

\* a slip: neither the test that the item exists nor the test of its type
deleteItemUnchecked(items, itemId) ==
  DeleteChildren(SelectSeq(items, LAMBDA i : i.id # itemId),
                 SelectSeq(items, LAMBDA i : i.parentId = itemId))

deleteItemRecursive(items, itemId) ==
  IF ~HasId(items, itemId) THEN items
  ELSE LET item == FindItem(items, itemId)
           newItems == SelectSeq(items, LAMBDA i : i.id # itemId)
       IN IF item.type = "folder"
            THEN DeleteChildren(newItems,
                                SelectSeq(items, LAMBDA i : i.parentId = itemId))
            ELSE newItems

(***************************************************************************)
(* Name tests and the reference test of the orphan scan (App.tsx)          *)
(***************************************************************************)
\* /\.(png|jpg|jpeg|gif|webp|svg)$/i
ImageExtensions ==
  { <<".", "p", "n", "g">>, <<".", "j", "p", "g">>, <<".", "j", "p", "e", "g">>,
    <<".", "g", "i", "f">>, <<".", "w", "e", "b", "p">>, <<".", "s", "v", "g">> }

IsImageName(name) == \E ext \in ImageExtensions : endsWith(toLowerCase(name), ext)

\* name.toLowerCase().endsWith('.md')
IsMarkdownName(name) == endsWith(toLowerCase(name), <<".", "m", "d">>)

\* the character class of imgName.replace(/[.*+?^${}()|[\]\\]/g, '\\$&')
RegexMetaChars ==
  {".", "*", "+", "?", "^", "$", "{", "}", "(", ")", "|", "[", "]", "\\"}

RECURSIVE escapeRegExp(_)
\* every metacharacter is preceded by a backslash
escapeRegExp(name) ==
  IF name = <<>> THEN <<>>
  ELSE (IF Head(name) \in RegexMetaChars THEN <<"\\", Head(name)>>
                                         ELSE <<Head(name)>>)
       \o escapeRegExp(Tail(name))

RECURSIVE RegexMatchAt(_, _, _)
\* new RegExp(re) matched against text from position pos (1-based) on, for
\* the syntax the names of this model can produce: \c is the character c,
\* . is any character, ( and ) open and close a group and consume nothing,
\* every other character is itself.
RegexMatchAt(re, text, pos) ==
  IF re = <<>> THEN TRUE
  ELSE IF Head(re) = "\\" /\ Len(re) >= 2
    THEN /\ pos <= Len(text)
         /\ text[pos] = re[2]
         /\ RegexMatchAt(SubSeq(re, 3, Len(re)), text, pos + 1)
  ELSE IF Head(re) \in {"(", ")"}
    THEN RegexMatchAt(Tail(re), text, pos)
  ELSE IF Head(re) = "."
    THEN /\ pos <= Len(text)
         /\ RegexMatchAt(Tail(re), text, pos + 1)
  ELSE /\ pos <= Len(text)
       /\ text[pos] = Head(re)
       /\ RegexMatchAt(Tail(re), text, pos + 1)

\* regex.test(content) of a fresh global regular expression: a match anywhere
RegexTest(re, text) == \E pos \in 1..(Len(text) + 1) : RegexMatchAt(re, text, pos)

isImageReferenced(imgName, content) == RegexTest(escapeRegExp(imgName), content)

(***************************************************************************)
(* Name-collision policy (App.tsx)                                         *)
(***************************************************************************)
\* fileSystem.some(i => i.parentId === parentId && i.name === name)
NameTaken(items, parentId, name) ==
  \E i \in 1..Len(items) : items[i].parentId = parentId /\ items[i].name = name

\* the candidate of generateUniqueFileName for a given count
UploadCandidate(fileName, count) ==
  LET dotIndex == lastIndexOf(fileName, ".")
  IN IF dotIndex > 0
       THEN SubSeq(fileName, 1, dotIndex) \o CountSuffix(count)
              \o SubSeq(fileName, dotIndex + 1, Len(fileName))
       ELSE fileName \o CountSuffix(count)

RECURSIVE UniqueFileNameLoop(_, _, _, _, _)
\* the while loop of generateUniqueFileName
UniqueFileNameLoop(items, parentId, original, fileName, count) ==
  IF NameTaken(items, parentId, fileName)
    THEN UniqueFileNameLoop(items, parentId, original,
                            UploadCandidate(original, count), count + 1)
    ELSE fileName

\* a slip of the loop: the counter is not advanced past the first candidate
generateFirstCandidate(items, fileName, parentId) ==
  IF NameTaken(items, parentId, fileName) THEN UploadCandidate(fileName, 1)
  ELSE fileName

generateUniqueFileName(items, fileName, parentId) ==
  UniqueFileNameLoop(items, parentId, fileName, fileName, 1)

NewNoteStem == <<"N", "e", "w", "N", "o", "t", "e">>
NewFolderStem == <<"N", "e", "w", "F", "o", "l", "d", "e", "r">>
DotMd == <<".", "m", "d">>
\* the base names of memory mode, four and five CJK characters, each written
\* here by its pinyin as one character
BaseNameFile == <<"xin", "jian", "bi", "ji">>
BaseNameFolder == <<"xin", "jian", "wen", "jian", "jia">>

\* handleCreateItem in disk mode: 'NewNote.md' / 'NewFolder', then
\* `NewNote (${count}).md` / `NewFolder (${count})`
DiskCreateCandidate(type, count) ==
  IF count = 0
    THEN (IF type = "file" THEN NewNoteStem \o DotMd ELSE NewFolderStem)
    ELSE (IF type = "file" THEN NewNoteStem \o CountSuffix(count) \o DotMd
                           ELSE NewFolderStem \o CountSuffix(count))

RECURSIVE DiskCreateNameLoop(_, _, _, _, _)
DiskCreateNameLoop(items, parentId, type, name, count) ==
  IF NameTaken(items, parentId, name)
    THEN DiskCreateNameLoop(items, parentId, type,
                            DiskCreateCandidate(type, count), count + 1)
    ELSE name

DiskCreateName(items, type, parentId) ==
  DiskCreateNameLoop(items, parentId, type, DiskCreateCandidate(type, 0), 1)

\* handleCreateItem in memory mode: baseName, then `${baseName} (${count})`
MemoryBaseName(type) == IF type = "file" THEN BaseNameFile ELSE BaseNameFolder

RECURSIVE MemoryCreateNameLoop(_, _, _, _, _)
MemoryCreateNameLoop(items, parentId, type, name, count) ==
  IF NameTaken(items, parentId, name)
    THEN MemoryCreateNameLoop(items, parentId, type,
                              MemoryBaseName(type) \o CountSuffix(count), count + 1)
    ELSE name

MemoryCreateName(items, type, parentId) ==
  MemoryCreateNameLoop(items, parentId, type, MemoryBaseName(type), 1)

(***************************************************************************)
(* State                                                                   *)
(***************************************************************************)
VARIABLES
  fileSystem,      \* useState<FileSystemItem[]>
  activeFileId,    \* useState<string | null>, 0 is null
  sidebarOpen,     \* useState(true)
  isLoaded,        \* useState(false): the mount effect has run / no scan runs
  isLocalMode,     \* useState(false): disk mode
  isLoadingFile,   \* useState(false)
  toasts,          \* useState<ToastType[]>, with the alerts shown
  rootDirHandle,   \* rootDirHandleRef.current, 0 is null
  storage,         \* localStorage[STORAGE_KEY]
  disk,            \* the directory granted by the user: its entries
  nextId,          \* the ids generateId has not handed out yet
  nextHandle,      \* the entry identities the disk has not used yet
  diskIds,         \* the ids generated for items scanned or created in disk mode
  pending,         \* the handlers suspended on a backend call, oldest first
  ops,             \* the user intents issued so far
  last,            \* the step just taken: its label and the handler run
  fn               \* what the specifications of a single function or handler
                   \* record of its applications (constant under Spec)

vars == <<fileSystem, activeFileId, sidebarOpen, isLoaded, isLocalMode,
          isLoadingFile, toasts, rootDirHandle, storage, disk, nextId,
          nextHandle, diskIds, pending, ops, last, fn>>

appVars == <<fileSystem, activeFileId, sidebarOpen, isLoaded, isLocalMode,
             isLoadingFile, toasts, rootDirHandle, storage, disk, nextId,
             nextHandle, diskIds, pending, ops, last>>

(***************************************************************************)
(* The directory capability (File System Access API).  An entry is a file  *)
(* or a directory under a parent directory; a handle is the identity of    *)
(* the entry it was obtained for.                                          *)
(***************************************************************************)
\* the handle window.showDirectoryPicker() resolves to
RootHandle == 1

MkEntry(h, parent, name, kind, text) ==
  [h |-> h, parent |-> parent, name |-> name, kind |-> kind, text |-> text]

EntryExists(d, h) == \E e \in d : e.h = h

EntryOf(d, h) == CHOOSE e \in d : e.h = h

DirExists(d, h) ==
  h = RootHandle \/ \E e \in d : e.h = h /\ e.kind = "directory"

HasChildEntry(d, parentH, name) ==
  \E e \in d : e.parent = parentH /\ e.name = name

ChildEntry(d, parentH, name) ==
  CHOOSE e \in d : e.parent = parentH /\ e.name = name

RECURSIVE EntryClosure(_, _)
\* the handles in hs and those of every entry below them
EntryClosure(d, hs) ==
  LET more == hs \cup {e.h : e \in {x \in d : x.parent \in hs}}
  IN IF more = hs THEN hs ELSE EntryClosure(d, more)

\* removeEntry(name, { recursive: true }) on the directory parentH
RemoveEntry(d, parentH, name) ==
  LET gone == EntryClosure(d, {ChildEntry(d, parentH, name).h})
  IN {e \in d : e.h \notin gone}

RECURSIVE SetToSeq(_)
\* the elements of a set of numbers in ascending order
SetToSeq(S) ==
  IF S = {} THEN <<>>
  ELSE LET m == CHOOSE x \in S : \A y \in S : x <= y
       IN <<m>> \o SetToSeq(S \ {m})

\* a slip of the hidden test: only the name "." itself is skipped
IsDotOnly(name) == name = <<".">>

IsHidden(name) == startsWith(name, <<".">>)

(***************************************************************************)
(* scanLocalDirectory (utils/fsHelpers.ts)                                 *)
(***************************************************************************)
RECURSIVE ScanEntries(_, _)
RECURSIVE ScanList(_, _)

\* the for-await loop over dirHandle.values(), in the order of the handles:
\* an entry that is not hidden, then, for a directory, what lies below it
ScanList(d, hs) ==
  IF hs = <<>> THEN <<>>
  ELSE LET e == EntryOf(d, Head(hs))
       IN (IF IsHidden(e.name) THEN <<>>
           ELSE <<e>> \o (IF e.kind = "directory" THEN ScanEntries(d, e.h)
                                                  ELSE <<>>))
          \o ScanList(d, Tail(hs))

ScanEntries(d, dirH) ==
  ScanList(d, SetToSeq({e.h : e \in {x \in d : x.parent = dirH}}))

\* the items built for the entries, ids taken from firstId on in the order
\* generateId is called
scanLocalDirectory(d, dirH, firstId) ==
  LET es == ScanEntries(d, dirH)
      IdOf(h) == firstId - 1 + CHOOSE k \in 1..Len(es) : es[k].h = h
  IN [k \in 1..Len(es) |->
        MkItem(firstId + k - 1,
               IF es[k].parent = dirH THEN 0 ELSE IdOf(es[k].parent),
               es[k].name,
               IF es[k].kind = "directory" THEN "folder" ELSE "file",
               Undef, FALSE, es[k].h, FALSE)]

(***************************************************************************)
(* The persistence document                                                *)
(***************************************************************************)
NoDoc ==
  [shape |-> "none", fileSystem |-> <<>>, activeFileId |-> 0, sidebarOpen |-> TRUE]

\* JSON.stringify of an item: a handle object has no own enumerable
\* property and is written as {}, here -1
SerializeItem(item) ==
  [item EXCEPT !.handle = IF item.handle = 0 THEN 0 ELSE -1]

\* JSON.stringify(stateToSave)
SerializeState(fs, active, sidebar) ==
  [shape |-> "object",
   fileSystem |-> [i \in 1..Len(fs) |-> SerializeItem(fs[i])],
   activeFileId |-> active, sidebarOpen |-> sidebar]

\* Initial Demo Data; the texts are cut to their first character
initialData ==
  << MkItem(1, 0, <<"ge", "ren", "sheng", "huo">>, "folder", Undef, TRUE, 0, TRUE),
     MkItem(2, 0, <<"gong", "zuo">>, "folder", Undef, TRUE, 0, FALSE),
     MkItem(3, 1, <<"xiang", "fa", ".", "m", "d">>, "file", <<"#">>, TRUE, 0, FALSE),
     MkItem(4, 1, <<"ri", "ji", ".", "m", "d">>, "file", <<"#">>, TRUE, 0, FALSE),
     MkItem(5, 2, <<"hui", "yi", "ji", "yao", ".", "m", "d">>, "file", <<"#">>, TRUE, 0, FALSE),
     MkItem(6, 0, <<"shi", "yong", "shuo", "ming", ".", "m", "d">>, "file", <<"#">>, TRUE, 0, FALSE) >>

\* the length of the stored text, counted in the characters of the names
\* and contents of its items
TextSize(t) == IF t = Undef THEN 0 ELSE Len(t)

RECURSIVE ItemsSize(_)
ItemsSize(items) ==
  IF items = <<>> THEN 0
  ELSE Len(Head(items).name) + TextSize(Head(items).content)
       + ItemsSize(Tail(items))

\* what localStorage has room for under STORAGE_KEY, in the same unit
StorageQuota == 50

\* localStorage.setItem(STORAGE_KEY, JSON.stringify(stateToSave)) inside the
\* try block: over the quota it throws, the catch logs, and the store keeps
\* the value it held
setItem(held, doc) ==
  IF ItemsSize(doc.fileSystem) > StorageQuota THEN held ELSE doc

\* the item collection the two loaders take from the stored document
LoadedFileSystem(doc) ==
  IF doc.shape \in {"array", "object"} THEN doc.fileSystem ELSE initialData

\* the active id the mount effect restores
LoadedActiveId(doc) ==
  IF doc.shape = "object" /\ doc.activeFileId # 0
     /\ HasId(doc.fileSystem, doc.activeFileId)
    THEN doc.activeFileId ELSE 0

LoadedSidebarOpen(doc) == IF doc.shape = "object" THEN doc.sidebarOpen ELSE TRUE

(***************************************************************************)
(* Handlers.  A handler runs with the state of the render it was issued    *)
(* from (fs, active, local below); at an await on a backend call it is     *)
(* put in `pending` and resumed by the step that completes the call.       *)
(***************************************************************************)
MkOp(kind, pc, id, type, name, handle) ==
  [kind |-> kind, pc |-> pc, fs |-> fileSystem, active |-> activeFileId,
   local |-> isLocalMode, id |-> id, type |-> type, name |-> name,
   handle |-> handle, input |-> <<>>, todo |-> <<>>, texts |-> <<>>,
   orphans |-> <<>>, count |-> 0]

NoOp ==
  [kind |-> "none", pc |-> "none", fs |-> <<>>, active |-> 0, local |-> FALSE,
   id |-> 0, type |-> "none", name |-> <<>>, handle |-> 0, input |-> <<>>,
   todo |-> <<>>, texts |-> <<>>, orphans |-> <<>>, count |-> 0]

\* the events whose handler is recorded together with the collection and
\* the active id of the render it was issued from
SnapshotEvents == {"create_ok", "upload_ok", "cleanup_deleting", "cleanup_done"}

\* the record of the step just taken (history only: no handler reads it)
Event(label, op) ==
  [label |-> label,
   op |-> IF label \in SnapshotEvents THEN op
          ELSE [op EXCEPT !.fs = <<>>, !.active = 0]]

\* showToast / alert: the kind, the message and the number it mentions
ToastN(type, msg, n) == [type |-> type, msg |-> msg, n |-> n]

Toast(type, msg) == ToastN(type, msg, 0)

RemoveAt(seq, k) == SubSeq(seq, 1, k - 1) \o SubSeq(seq, k + 1, Len(seq))

EntryKind(type) == IF type = "folder" THEN "directory" ELSE "file"

\* the Sidebar renders folders and Markdown files only
ShownInSidebar(item) == item.type = "folder" \/ IsMarkdownName(item.name)

\* the application is rendered (not the loading screen) and no directory
\* picker is open; the budget of intents is not used up
UiReady ==
  /\ isLoaded
  /\ ops < MaxOps
  /\ \A k \in 1..Len(pending) : pending[k].kind # "open"

CanSuspend == Len(pending) < MaxPending

\* the save effect: it runs after the render that follows a state change
SavedDocument(fs, active, sidebar, loaded, local) ==
  IF loaded /\ ~local
    THEN setItem(storage, SerializeState(fs, active, sidebar))
    ELSE storage

\* a slip of the save effect: when the write fails the React state is set
\* back to what the store holds
RenderOrRollBack(fs, active) ==
  IF isLoaded /\ ~isLocalMode /\ ItemsSize(fs) > StorageQuota
    THEN /\ fileSystem' = LoadedFileSystem(storage)
         /\ activeFileId' = LoadedActiveId(storage)
         /\ storage' = storage
    ELSE /\ fileSystem' = fs
         /\ activeFileId' = active
         /\ storage' = SavedDocument(fs, active, sidebarOpen, isLoaded, isLocalMode)

\* the new React state of a step, and the document the save effect leaves
Render(fs, active) ==
  /\ fileSystem' = fs
  /\ activeFileId' = active
  /\ storage' = SavedDocument(fs, active, sidebarOpen, isLoaded, isLocalMode)

\* parentId ? fileSystem.find(i => i.id === parentId)?.handle : rootDirHandleRef.current
ParentHandle(fs, parentId) ==
  IF parentId # 0
    THEN (IF HasId(fs, parentId) THEN FindItem(fs, parentId).handle ELSE 0)
    ELSE rootDirHandle

(***************************************************************************)
(* handleCreateItem                                                        *)
(***************************************************************************)
\* lines 508-541: the new item is appended to the current collection
AppendCreated(op, name, newHandle) ==
  LET newItem == MkItem(nextId, op.id, name, op.type,
                        IF op.type = "file" THEN <<>> ELSE Undef,
                        TRUE, newHandle, TRUE)
      appended == Append(fileSystem, newItem)
      opened == IF op.type = "file" /\ op.id # 0
                  THEN [i \in 1..Len(appended) |->
                          IF appended[i].id = op.id
                            THEN [appended[i] EXCEPT !.isOpen = TRUE]
                            ELSE appended[i]]
                  ELSE appended
  IN /\ Render(opened, IF op.type = "file" THEN nextId ELSE activeFileId)
     /\ nextId' = nextId + 1
     /\ diskIds' = IF op.local THEN diskIds \cup {nextId} ELSE diskIds

CreateItem(type, parentId) ==
  /\ UiReady
  /\ parentId # 0 =>
       /\ HasId(fileSystem, parentId)
       /\ FindItem(fileSystem, parentId).type = "folder"
  /\ ops' = ops + 1
  /\ UNCHANGED <<sidebarOpen, isLoaded, isLocalMode, isLoadingFile,
                 rootDirHandle, disk, nextHandle, fn>>
  /\ IF isLocalMode
       THEN LET parentHandle == ParentHandle(fileSystem, parentId)
                op == [MkOp("create", "await", parentId, type,
                            DiskCreateName(fileSystem, type, parentId),
                            parentHandle)
                         EXCEPT !.input = DiskCreateCandidate(type, 0)]
            IN IF parentHandle = 0
                 THEN /\ toasts' = Append(toasts, Toast("alert", "no-parent-handle"))
                      /\ last' = Event("create_alert", op)
                      /\ UNCHANGED <<fileSystem, activeFileId, storage, nextId,
                                     diskIds, pending>>
                 ELSE /\ CanSuspend
                      /\ pending' = Append(pending, op)
                      /\ last' = Event("create_issue", op)
                      /\ UNCHANGED <<fileSystem, activeFileId, storage, nextId,
                                     diskIds, toasts>>
       ELSE LET op == [MkOp("create", "done", parentId, type,
                            MemoryCreateName(fileSystem, type, parentId), 0)
                         EXCEPT !.input = MemoryBaseName(type)]
            IN /\ AppendCreated(op, op.name, 0)
               /\ last' = Event("create_ok", op)
               /\ UNCHANGED <<toasts, pending>>

\* getFileHandle / getDirectoryHandle(name, { create: true }) resolves
CreateDone(k) ==
  LET op == pending[k]
      exists == HasChildEntry(disk, op.handle, op.name)
      h == IF exists THEN ChildEntry(disk, op.handle, op.name).h ELSE nextHandle
  IN /\ op.kind = "create"
     /\ DirExists(disk, op.handle)
     /\ exists => ChildEntry(disk, op.handle, op.name).kind = EntryKind(op.type)
     /\ disk' = IF exists THEN disk
                ELSE disk \cup {MkEntry(h, op.handle, op.name, EntryKind(op.type), <<>>)}
     /\ nextHandle' = IF exists THEN nextHandle ELSE nextHandle + 1
     /\ AppendCreated(op, op.name, h)
     /\ pending' = RemoveAt(pending, k)
     /\ last' = Event("create_ok", op)
     /\ UNCHANGED <<sidebarOpen, isLoaded, isLocalMode, isLoadingFile, toasts,
                    rootDirHandle, ops, fn>>

\* a slip of the catch block: no return, so the item is added without a handle
CreateFailFallsThrough(k) ==
  /\ pending[k].kind = "create"
  /\ AppendCreated(pending[k], MemoryBaseName(pending[k].type), 0)
  /\ pending' = RemoveAt(pending, k)
  /\ last' = Event("create_fail", pending[k])
  /\ UNCHANGED <<sidebarOpen, isLoaded, isLocalMode, isLoadingFile, toasts,
                 rootDirHandle, disk, nextHandle, ops, fn>>

\* the call throws: the catch block returns
CreateFail(k) ==
  /\ pending[k].kind = "create"
  /\ pending' = RemoveAt(pending, k)
  /\ last' = Event("create_fail", pending[k])
  /\ UNCHANGED <<fileSystem, activeFileId, sidebarOpen, isLoaded, isLocalMode,
                 isLoadingFile, toasts, rootDirHandle, storage, disk, nextId,
                 nextHandle, diskIds, ops, fn>>

(***************************************************************************)
(* handleDeleteItem                                                        *)
(***************************************************************************)
\* lines 642-644, with the collection and active id of the handler's render
ApplyDelete(op) ==
  Render(deleteItemRecursive(op.fs, op.id),
         IF op.active = op.id THEN 0 ELSE activeFileId)

\* whether lines 627-636 reach the await on removeEntry
DeleteAwaits(fs, local, id) ==
  /\ local
  /\ HasId(fs, id)
  /\ FindItem(fs, id).handle # 0
  /\ ParentHandle(fs, FindItem(fs, id).parentId) # 0

DeleteItem(id) ==
  /\ UiReady
  /\ HasId(fileSystem, id)
  /\ ShownInSidebar(FindItem(fileSystem, id))
  /\ ops' = ops + 1
  /\ UNCHANGED <<sidebarOpen, isLoaded, isLocalMode, isLoadingFile, toasts,
                 rootDirHandle, disk, nextId, nextHandle, diskIds, fn>>
  /\ LET item == FindItem(fileSystem, id)
         op == MkOp("delete", "await", id, item.type, item.name,
                    ParentHandle(fileSystem, item.parentId))
     IN IF DeleteAwaits(fileSystem, isLocalMode, id)
          THEN /\ CanSuspend
               /\ pending' = Append(pending, op)
               /\ last' = Event("delete_issue", op)
               /\ UNCHANGED <<fileSystem, activeFileId, storage>>
          ELSE /\ ApplyDelete(op)
               /\ last' = Event("delete_ok", op)
               /\ UNCHANGED pending

\* removeEntry(name, { recursive: true }) resolves
DeleteDone(k) ==
  LET op == pending[k]
  IN /\ op.kind = "delete"
     /\ DirExists(disk, op.handle)
     /\ HasChildEntry(disk, op.handle, op.name)
     /\ disk' = RemoveEntry(disk, op.handle, op.name)
     /\ ApplyDelete(op)
     /\ pending' = RemoveAt(pending, k)
     /\ last' = Event("delete_ok", op)
     /\ UNCHANGED <<sidebarOpen, isLoaded, isLocalMode, isLoadingFile, toasts,
                    rootDirHandle, nextId, nextHandle, diskIds, ops, fn>>

\* removeEntry throws: the catch block returns
DeleteFail(k) ==
  /\ pending[k].kind = "delete"
  /\ pending' = RemoveAt(pending, k)
  /\ last' = Event("delete_fail", pending[k])
  /\ UNCHANGED <<fileSystem, activeFileId, sidebarOpen, isLoaded, isLocalMode,
                 isLoadingFile, toasts, rootDirHandle, storage, disk, nextId,
                 nextHandle, diskIds, ops, fn>>

(***************************************************************************)
(* handleToggleFolder                                                      *)
(***************************************************************************)
ToggleFolder(id) ==
  /\ UiReady
  /\ HasId(fileSystem, id)
  /\ FindItem(fileSystem, id).type = "folder"
  /\ Render([i \in 1..Len(fileSystem) |->
               IF fileSystem[i].id = id
                 THEN [fileSystem[i] EXCEPT !.isOpen = ~fileSystem[i].isOpen]
                 ELSE fileSystem[i]],
            activeFileId)
  /\ ops' = ops + 1
  /\ last' = Event("toggle", MkOp("toggle", "done", id, "folder", <<>>, 0))
  /\ UNCHANGED <<sidebarOpen, isLoaded, isLocalMode, isLoadingFile, toasts,
                 rootDirHandle, disk, nextId, nextHandle, diskIds, pending, fn>>

(***************************************************************************)
(* handleRenameItem                                                        *)
(***************************************************************************)
\* lines 549-551, case-insensitive among the siblings
hasDuplicate(fs, item, newName) ==
  \E i \in 1..Len(fs) :
    /\ fs[i].parentId = item.parentId
    /\ fs[i].id # item.id
    /\ toLowerCase(fs[i].name) = toLowerCase(trim(newName))

\* the renamed item is also made a child of itself
ApplyRenameReparent(op, newHandle) ==
  Render([i \in 1..Len(fileSystem) |->
            IF fileSystem[i].id = op.id
              THEN [fileSystem[i] EXCEPT
                      !.name = op.name,
                      !.parentId = op.id,
                      !.handle = IF newHandle # 0 THEN newHandle ELSE @]
              ELSE fileSystem[i]],
         activeFileId)

\* line 618: newHandle 0 is null, the item then keeps its handle
ApplyRename(op, newHandle) ==
  Render([i \in 1..Len(fileSystem) |->
            IF fileSystem[i].id = op.id
              THEN [fileSystem[i] EXCEPT
                      !.name = op.name,
                      !.handle = IF newHandle # 0 THEN newHandle ELSE @]
              ELSE fileSystem[i]],
         activeFileId)

RenameItem(id, newName) ==
  /\ UiReady
  /\ trim(newName) # <<>>
  /\ HasId(fileSystem, id)
  /\ ShownInSidebar(FindItem(fileSystem, id))
  /\ FindItem(fileSystem, id).name # newName
  /\ ops' = ops + 1
  /\ UNCHANGED <<sidebarOpen, isLoaded, isLocalMode, isLoadingFile,
                 rootDirHandle, disk, nextId, nextHandle, diskIds, fn>>
  /\ LET item == FindItem(fileSystem, id)
         parentHandle == ParentHandle(fileSystem, item.parentId)
         Op(pc) == MkOp("rename", pc, id, item.type, newName, parentHandle)
     IN IF hasDuplicate(fileSystem, item, newName)
          THEN /\ toasts' = Append(toasts, Toast("error", "rename-duplicate"))
               /\ last' = Event("rename_duplicate", Op("done"))
               /\ UNCHANGED <<fileSystem, activeFileId, storage, pending>>
        ELSE IF isLocalMode /\ item.handle # 0
          THEN \E hasMove \in BOOLEAN :
                 IF hasMove
                   THEN /\ CanSuspend
                        /\ pending' = Append(pending, Op("move"))
                        /\ last' = Event("rename_issue", Op("move"))
                        /\ UNCHANGED <<fileSystem, activeFileId, storage, toasts>>
                 ELSE IF parentHandle = 0
                   THEN /\ toasts' = Append(toasts, Toast("alert", "no-parent-handle"))
                        /\ last' = Event("rename_alert", Op("done"))
                        /\ UNCHANGED <<fileSystem, activeFileId, storage, pending>>
                 ELSE /\ CanSuspend
                      /\ pending' = Append(pending, Op(item.type))
                      /\ last' = Event("rename_issue", Op(item.type))
                      /\ UNCHANGED <<fileSystem, activeFileId, storage, toasts>>
        ELSE /\ ApplyRename(Op("done"), 0)
             /\ last' = Event("rename_ok", Op("done"))
             /\ UNCHANGED <<toasts, pending>>

\* the handles given to the entries below directory h once they are moved:
\* a handle stands for a path, so a moved entry is reached by a new one
MovedHandle(d, h, x) ==
  nextHandle + Cardinality({y \in EntryClosure(d, {h}) \ {h} : y < x})

\* item.handle.move(newName) resolves: the entry is renamed in place
RenameMoveDone(k) ==
  LET op == pending[k]
      h == FindItem(op.fs, op.id).handle
  IN /\ op.kind = "rename" /\ op.pc = "move"
     /\ EntryExists(disk, h)
     /\ ~HasChildEntry(disk, EntryOf(disk, h).parent, op.name)
     /\ disk' = {IF e.h = h THEN [e EXCEPT !.name = op.name] ELSE e : e \in disk}
     /\ ApplyRename(op, 0)
     /\ pending' = RemoveAt(pending, k)
     /\ last' = Event("rename_ok", op)
     /\ UNCHANGED <<sidebarOpen, isLoaded, isLocalMode, isLoadingFile, toasts,
                    rootDirHandle, nextId, nextHandle, diskIds, ops, fn>>

\* lines 599-609: read if not loaded, create the new file, write, remove the old
RenameFileDone(k) ==
  LET op == pending[k]
      item == FindItem(op.fs, op.id)
      exists == HasChildEntry(disk, op.handle, op.name)
      h == IF exists THEN ChildEntry(disk, op.handle, op.name).h ELSE nextHandle
      content == IF item.isLoaded
                   THEN (IF item.content = Undef THEN <<>> ELSE item.content)
                   ELSE EntryOf(disk, item.handle).text
  IN /\ op.kind = "rename" /\ op.pc = "file"
     /\ ~item.isLoaded => EntryExists(disk, item.handle)
     /\ DirExists(disk, op.handle)
     /\ exists => ChildEntry(disk, op.handle, op.name).kind = "file"
     /\ HasChildEntry(disk, op.handle, item.name)
     /\ disk' = {e \in RemoveEntry(disk, op.handle, item.name) : e.h # h}
                  \cup {MkEntry(h, op.handle, op.name, "file", content)}
     /\ nextHandle' = IF exists THEN nextHandle ELSE nextHandle + 1
     /\ ApplyRename(op, h)
     /\ pending' = RemoveAt(pending, k)
     /\ last' = Event("rename_ok", op)
     /\ UNCHANGED <<sidebarOpen, isLoaded, isLocalMode, isLoadingFile, toasts,
                    rootDirHandle, nextId, diskIds, ops, fn>>

\* lines 578-588: create the new directory, move the children, remove the old
RenameFolderDone(k) ==
  LET op == pending[k]
      item == FindItem(op.fs, op.id)
      old == item.handle
      below == EntryClosure(disk, {old}) \ {old}
      newDir == nextHandle + Cardinality(below)
      NewH(x) == IF x = old THEN newDir ELSE MovedHandle(disk, old, x)
  IN /\ op.kind = "rename" /\ op.pc = "folder"
     /\ DirExists(disk, op.handle)
     /\ ~HasChildEntry(disk, op.handle, op.name)
     /\ EntryExists(disk, old)
     /\ HasChildEntry(disk, op.handle, item.name)
     /\ disk' = {e \in disk : e.h \notin (below \cup {old})}
                  \cup {MkEntry(newDir, op.handle, op.name, "directory", <<>>)}
                  \cup {[e EXCEPT !.h = NewH(e.h), !.parent = NewH(e.parent)] :
                          e \in {x \in disk : x.h \in below}}
     /\ nextHandle' = newDir + 1
     /\ ApplyRename(op, newDir)
     /\ pending' = RemoveAt(pending, k)
     /\ last' = Event("rename_ok", op)
     /\ UNCHANGED <<sidebarOpen, isLoaded, isLocalMode, isLoadingFile, toasts,
                    rootDirHandle, nextId, diskIds, ops, fn>>

\* a backend call of the rename throws.  With the copy-and-delete strategy
\* the new entry may already have been created (partial); the folder
\* strategy reports the failure, the others return silently
RenameFail(k) ==
  LET op == pending[k]
  IN /\ op.kind = "rename"
     /\ \E partial \in BOOLEAN :
          /\ partial => /\ op.pc \in {"file", "folder"}
                        /\ DirExists(disk, op.handle)
                        /\ ~HasChildEntry(disk, op.handle, op.name)
          /\ disk' = IF partial
                       THEN disk \cup {MkEntry(nextHandle, op.handle, op.name,
                                               EntryKind(op.type), <<>>)}
                       ELSE disk
          /\ nextHandle' = IF partial THEN nextHandle + 1 ELSE nextHandle
     /\ toasts' = IF op.pc = "folder"
                    THEN Append(toasts, Toast("error", "folder-rename-failed"))
                    ELSE toasts
     /\ pending' = RemoveAt(pending, k)
     /\ last' = Event("rename_fail", op)
     /\ UNCHANGED <<fileSystem, activeFileId, sidebarOpen, isLoaded, isLocalMode,
                    isLoadingFile, rootDirHandle, storage, nextId, diskIds, ops, fn>>

(***************************************************************************)
(* handleFileSelect                                                        *)
(***************************************************************************)
\* lines 651-672, called with the id of a file of the collection
handleFileSelect(id) ==
  /\ UiReady
  /\ HasId(fileSystem, id)
  /\ FindItem(fileSystem, id).type = "file"
  /\ ops' = ops + 1
  /\ Render(fileSystem, id)
  /\ UNCHANGED <<sidebarOpen, isLoaded, isLocalMode, toasts, rootDirHandle, disk,
                 nextId, nextHandle, diskIds, fn>>
  /\ LET file == FindItem(fileSystem, id)
         op == MkOp("select", "await", id, "file", file.name, file.handle)
     IN IF isLocalMode /\ ~file.isLoaded /\ file.handle # 0
           /\ ~IsImageName(file.name)
          THEN /\ CanSuspend
               /\ isLoadingFile' = TRUE
               /\ pending' = Append(pending, op)
               /\ last' = Event("select_issue", op)
          ELSE /\ last' = Event("select_ok", op)
               /\ UNCHANGED <<isLoadingFile, pending>>

\* the Sidebar calls onSelectFile for the files it renders
FileSelect(id) ==
  /\ HasId(fileSystem, id)
  /\ ShownInSidebar(FindItem(fileSystem, id))
  /\ handleFileSelect(id)

\* the text is stored, the item is not marked loaded
FileSelectDoneUnmarked(k) ==
  LET op == pending[k]
  IN /\ op.kind = "select"
     /\ EntryExists(disk, op.handle)
     /\ Render([i \in 1..Len(fileSystem) |->
                  IF fileSystem[i].id = op.id
                    THEN [fileSystem[i] EXCEPT
                            !.content = EntryOf(disk, op.handle).text]
                    ELSE fileSystem[i]],
               activeFileId)
     /\ isLoadingFile' = FALSE
     /\ pending' = RemoveAt(pending, k)
     /\ last' = Event("select_loaded", op)
     /\ UNCHANGED <<sidebarOpen, isLoaded, isLocalMode, toasts, rootDirHandle,
                    disk, nextId, nextHandle, diskIds, ops, fn>>

\* getFile() and text() resolve
FileSelectDone(k) ==
  LET op == pending[k]
  IN /\ op.kind = "select"
     /\ EntryExists(disk, op.handle)
     /\ Render([i \in 1..Len(fileSystem) |->
                  IF fileSystem[i].id = op.id
                    THEN [fileSystem[i] EXCEPT
                            !.content = EntryOf(disk, op.handle).text,
                            !.isLoaded = TRUE]
                    ELSE fileSystem[i]],
               activeFileId)
     /\ isLoadingFile' = FALSE
     /\ pending' = RemoveAt(pending, k)
     /\ last' = Event("select_loaded", op)
     /\ UNCHANGED <<sidebarOpen, isLoaded, isLocalMode, toasts, rootDirHandle,
                    disk, nextId, nextHandle, diskIds, ops, fn>>

\* the read throws: logged, and the finally block clears the loading flag
FileSelectFail(k) ==
  /\ pending[k].kind = "select"
  /\ isLoadingFile' = FALSE
  /\ pending' = RemoveAt(pending, k)
  /\ last' = Event("select_fail", pending[k])
  /\ UNCHANGED <<fileSystem, activeFileId, sidebarOpen, isLoaded, isLocalMode,
                 toasts, rootDirHandle, storage, disk, nextId, nextHandle,
                 diskIds, ops, fn>>

(***************************************************************************)
(* handleUpdateFile                                                        *)
(***************************************************************************)
\* App render, lines 723-737: the Editor is mounted for the active file
EditorShown ==
  /\ activeFileId # 0
  /\ HasId(fileSystem, activeFileId)
  /\ ~isLoadingFile

\* the text typed in the editor: axpng a (1).png
EditContents ==
  { <<"a", "x", "p", "n", "g", " ", "a", " ", "(", "1", ")", ".", "p", "n", "g">> }

UpdateFile(content) ==
  /\ UiReady
  /\ EditorShown
  /\ FindItem(fileSystem, activeFileId).content # content
  /\ ops' = ops + 1
  /\ Render([i \in 1..Len(fileSystem) |->
               IF fileSystem[i].id = activeFileId
                 THEN [fileSystem[i] EXCEPT !.content = content]
                 ELSE fileSystem[i]],
            activeFileId)
  /\ UNCHANGED <<sidebarOpen, isLoaded, isLocalMode, isLoadingFile, toasts,
                 rootDirHandle, disk, nextId, nextHandle, diskIds>>
  /\ LET file == FindItem(fileSystem, activeFileId)
         op == [MkOp("edit", "await", activeFileId, "file", file.name, file.handle)
                  EXCEPT !.texts = <<content>>]
     IN IF isLocalMode /\ file.handle # 0
          THEN /\ CanSuspend
               /\ pending' = Append(pending, op)
               /\ last' = Event("edit_issue", op)
          ELSE /\ last' = Event("edit_ok", op)
               /\ UNCHANGED pending

\* createWritable, write and close resolve
UpdateFileDone(k) ==
  LET op == pending[k]
  IN /\ op.kind = "edit"
     /\ EntryExists(disk, op.handle)
     /\ disk' = {IF e.h = op.handle THEN [e EXCEPT !.text = op.texts[1]] ELSE e :
                   e \in disk}
     /\ pending' = RemoveAt(pending, k)
     /\ last' = Event("edit_ok", op)
     /\ UNCHANGED <<fileSystem, activeFileId, sidebarOpen, isLoaded, isLocalMode,
                    isLoadingFile, toasts, rootDirHandle, storage, nextId,
                    nextHandle, diskIds, ops>>

\* the write throws: logged only
UpdateFileFail(k) ==
  /\ pending[k].kind = "edit"
  /\ pending' = RemoveAt(pending, k)
  /\ last' = Event("edit_fail", pending[k])
  /\ UNCHANGED <<fileSystem, activeFileId, sidebarOpen, isLoaded, isLocalMode,
                 isLoadingFile, toasts, rootDirHandle, storage, disk, nextId,
                 nextHandle, diskIds, ops>>

(***************************************************************************)
(* handleImageUpload                                                       *)
(***************************************************************************)
\* the names of the files the user picks
UploadNames ==
  { <<"a", ".", "p", "n", "g">>, <<"A", ".", "P", "N", "G">> }

\* reader.result of readAsDataURL: a data URI
DataUri == <<"d", "a", "t", "a", ":">>

\* createFileSystemItem appended by the functional update
AppendUploaded(op, newHandle, content) ==
  /\ Render(Append(fileSystem,
                   MkItem(nextId, op.id, op.name, "file", content, TRUE,
                          newHandle, FALSE)),
            activeFileId)
  /\ nextId' = nextId + 1
  /\ diskIds' = IF op.local THEN diskIds \cup {nextId} ELSE diskIds

ImageUpload(fileName) ==
  /\ UiReady
  /\ EditorShown
  /\ IsImageName(fileName)
  /\ ops' = ops + 1
  /\ UNCHANGED <<fileSystem, activeFileId, sidebarOpen, isLoaded, isLocalMode,
                 isLoadingFile, toasts, rootDirHandle, storage, disk, nextId,
                 nextHandle, diskIds, fn>>
  /\ LET parentId == FindItem(fileSystem, activeFileId).parentId
         name == generateUniqueFileName(fileSystem, fileName, parentId)
         parentHandle == ParentHandle(fileSystem, parentId)
         Op(pc) == [MkOp("upload", pc, parentId, "file", name, parentHandle)
                      EXCEPT !.input = fileName]
     IN IF isLocalMode /\ parentHandle = 0
          THEN /\ last' = Event("upload_fail", Op("done"))
               /\ UNCHANGED pending
          ELSE /\ CanSuspend
               /\ pending' = Append(pending, Op(IF isLocalMode THEN "disk" ELSE "reader"))
               /\ last' = Event("upload_issue", Op(IF isLocalMode THEN "disk" ELSE "reader"))

\* saveImageToDisk resolves (the file is created and written), or the
\* FileReader of saveImageToMemory has loaded
ImageUploadDone(k) ==
  LET op == pending[k]
      exists == HasChildEntry(disk, op.handle, op.name)
      h == IF exists THEN ChildEntry(disk, op.handle, op.name).h ELSE nextHandle
  IN /\ op.kind = "upload"
     /\ pending' = RemoveAt(pending, k)
     /\ last' = Event("upload_ok", op)
     /\ UNCHANGED <<sidebarOpen, isLoaded, isLocalMode, isLoadingFile, toasts,
                    rootDirHandle, ops, fn>>
     /\ IF op.pc = "disk"
          THEN /\ DirExists(disk, op.handle)
               /\ exists => ChildEntry(disk, op.handle, op.name).kind = "file"
               /\ disk' = {e \in disk : e.h # h}
                            \cup {MkEntry(h, op.handle, op.name, "file", <<>>)}
               /\ nextHandle' = IF exists THEN nextHandle ELSE nextHandle + 1
               /\ AppendUploaded(op, h, Undef)
          ELSE /\ AppendUploaded(op, 0, DataUri)
               /\ UNCHANGED <<disk, nextHandle>>

\* a backend call of the upload throws (the file may already exist, empty),
\* or the FileReader fails: handleImageUpload rejects
ImageUploadFail(k) ==
  LET op == pending[k]
  IN /\ op.kind = "upload"
     /\ \E partial \in BOOLEAN :
          /\ partial => /\ op.pc = "disk"
                        /\ DirExists(disk, op.handle)
                        /\ ~HasChildEntry(disk, op.handle, op.name)
          /\ disk' = IF partial
                       THEN disk \cup {MkEntry(nextHandle, op.handle, op.name,
                                               "file", <<>>)}
                       ELSE disk
          /\ nextHandle' = IF partial THEN nextHandle + 1 ELSE nextHandle
     /\ pending' = RemoveAt(pending, k)
     /\ last' = Event("upload_fail", op)
     /\ UNCHANGED <<fileSystem, activeFileId, sidebarOpen, isLoaded, isLocalMode,
                    isLoadingFile, toasts, rootDirHandle, storage, nextId,
                    diskIds, ops, fn>>

(***************************************************************************)
(* The orphan scan: handleCleanupAssets and its helpers                    *)
(***************************************************************************)
RECURSIVE Distinct(_, _)
\* the insertion order of new Set(xs): first occurrences only
Distinct(xs, seen) ==
  IF xs = <<>> THEN <<>>
  ELSE IF Head(xs) \in seen THEN Distinct(Tail(xs), seen)
  ELSE <<Head(xs)>> \o Distinct(Tail(xs), seen \cup {Head(xs)})

\* lines 372-373: the parent ids in the order of the Set, null (0) added last
ScopeOrder(allFiles) ==
  LET ps == Distinct([i \in 1..Len(allFiles) |-> allFiles[i].parentId], {})
  IN IF \E i \in 1..Len(ps) : ps[i] = 0 THEN ps ELSE Append(ps, 0)

Siblings(allFiles, folderId) ==
  SelectSeq(allFiles, LAMBDA i : i.parentId = folderId)

MdFiles(allFiles, folderId) ==
  SelectSeq(Siblings(allFiles, folderId), LAMBDA i : IsMarkdownName(i.name))

ImgFiles(allFiles, folderId) ==
  SelectSeq(Siblings(allFiles, folderId), LAMBDA i : IsImageName(i.name))

\* line 303: the note is read from its handle
NeedsRead(md, local) == local /\ md.handle # 0 /\ ~md.isLoaded

RECURSIVE ReadsOfScopes(_, _, _)
\* the notes the scan reads from disk, in the order it reads them
ReadsOfScopes(allFiles, local, scopes) ==
  IF scopes = <<>> THEN <<>>
  ELSE (IF ImgFiles(allFiles, Head(scopes)) = <<>> THEN <<>>
        ELSE LET reads == SelectSeq(MdFiles(allFiles, Head(scopes)),
                                    LAMBDA i : NeedsRead(i, local))
             IN [k \in 1..Len(reads) |-> reads[k].id])
       \o ReadsOfScopes(allFiles, local, Tail(scopes))

ReadsOf(allFiles, local) == ReadsOfScopes(allFiles, local, ScopeOrder(allFiles))

\* the outcome of reading the note id: [id, ok, text]
ReadResult(texts, id) ==
  texts[CHOOSE k \in 1..Len(texts) : texts[k].id = id]

\* md.content || "" alone: the text the Tree Store holds, nothing when the
\* note has not been loaded
ContentAsHeld(md, local, texts) ==
  IF md.content = Undef THEN <<>> ELSE md.content

\* line 300 (md.content || "") and line 305: the text the scan takes for md
ContentOrEmpty(md, local, texts) ==
  IF NeedsRead(md, local)
    THEN (IF ReadResult(texts, md.id).ok THEN ReadResult(texts, md.id).text ELSE <<>>)
    ELSE (IF md.content = Undef THEN <<>> ELSE md.content)

RECURSIVE getMarkdownFilesContent(_, _, _)
\* lines 296-317: a note that cannot be read is skipped (continue)
getMarkdownFilesContent(mdFiles, local, texts) ==
  IF mdFiles = <<>> THEN <<>>
  ELSE LET md == Head(mdFiles)
           rest == getMarkdownFilesContent(Tail(mdFiles), local, texts)
       IN IF NeedsRead(md, local) /\ ~ReadResult(texts, md.id).ok
            THEN rest
            ELSE ContentOrEmpty(md, local, texts) \o <<"\n">> \o rest

\* lines 327-344
scanFolderForOrphanedImages(folderId, allFiles, local, texts) ==
  IF ImgFiles(allFiles, folderId) = <<>> THEN <<>>
  ELSE LET combinedContent ==
             getMarkdownFilesContent(MdFiles(allFiles, folderId), local, texts)
       IN SelectSeq(ImgFiles(allFiles, folderId),
                    LAMBDA img : ~isImageReferenced(img.name, combinedContent))

RECURSIVE OrphansOfScopes(_, _, _, _)
OrphansOfScopes(allFiles, local, texts, scopes) ==
  IF scopes = <<>> THEN <<>>
  ELSE scanFolderForOrphanedImages(Head(scopes), allFiles, local, texts)
       \o OrphansOfScopes(allFiles, local, texts, Tail(scopes))

\* lines 375-381: allOrphanedImages, as ids
AllOrphanedImages(allFiles, local, texts) ==
  LET found == OrphansOfScopes(allFiles, local, texts, ScopeOrder(allFiles))
  IN [k \in 1..Len(found) |-> found[k].id]

RECURSIVE SyncPrefixLen(_, _)
\* how many of the next deletions run without an await on removeEntry
SyncPrefixLen(op, todo) ==
  IF todo = <<>> THEN 0
  ELSE IF DeleteAwaits(op.fs, op.local, Head(todo)) THEN 0
  ELSE 1 + SyncPrefixLen(op, Tail(todo))

PendingWith(k, op) ==
  IF k = 0 THEN Append(pending, op) ELSE [pending EXCEPT ![k] = op]

PendingWithout(k) == IF k = 0 THEN pending ELSE RemoveAt(pending, k)

\* showCleanupResult
CleanupResult(deletedCount) ==
  IF deletedCount = 0 THEN Toast("info", "cleanup-none")
  ELSE ToastN("success", "cleanup-done", deletedCount)

\* deleteOrphanedImages from the orphan Head(todo) on: every call of
\* handleDeleteItem is the one of the render the cleanup was issued from, so
\* it removes its item from that render's collection (op.fs).  baseFs and
\* baseActive are the state the loop continues from; k is the place of the
\* cleanup in pending (0 when it is being issued).
DeleteOrphanedImages(op, todo, count, baseFs, baseActive, k) ==
  LET n == SyncPrefixLen(op, todo)
      rest == SubSeq(todo, n + 1, Len(todo))
      fsAfter == IF n = 0 THEN baseFs ELSE deleteItemRecursive(op.fs, todo[n])
      activeAfter == IF \E i \in 1..n : todo[i] = op.active THEN 0 ELSE baseActive
  IN /\ Render(fsAfter, activeAfter)
     /\ IF rest = <<>>
          THEN /\ toasts' = Append(toasts, CleanupResult(count + n))
               /\ pending' = PendingWithout(k)
               /\ last' = Event("cleanup_done",
                                [op EXCEPT !.pc = "done", !.todo = <<>>,
                                           !.count = count + n])
          ELSE LET next == [op EXCEPT
                              !.pc = "delete", !.todo = rest, !.count = count + n,
                              !.handle = ParentHandle(op.fs,
                                           FindItem(op.fs, Head(rest)).parentId)]
               IN /\ k = 0 => CanSuspend
                  /\ pending' = PendingWith(k, next)
                  /\ last' = Event("cleanup_deleting", next)
                  /\ UNCHANGED toasts

\* the scan is over: the orphans are known and the deletions start
StartDeleting(op, texts, k) ==
  LET orphans == AllOrphanedImages(op.fs, op.local, texts)
  IN DeleteOrphanedImages([op EXCEPT !.texts = texts, !.orphans = orphans],
                          orphans, 0, fileSystem, activeFileId, k)

CleanupAssets ==
  /\ UiReady
  /\ ops' = ops + 1
  /\ UNCHANGED <<sidebarOpen, isLoaded, isLocalMode, isLoadingFile,
                 rootDirHandle, disk, nextId, nextHandle, diskIds, fn>>
  /\ LET reads == ReadsOf(fileSystem, isLocalMode)
         op == [MkOp("cleanup", "scan", 0, "none", <<>>, 0) EXCEPT !.todo = reads]
     IN IF reads = <<>>
          THEN StartDeleting(op, <<>>, 0)
          ELSE /\ CanSuspend
               /\ pending' = Append(pending, op)
               /\ last' = Event("cleanup_scanning", op)
               /\ UNCHANGED <<fileSystem, activeFileId, storage, toasts>>

\* the scan goes on after the read of the note Head(op.todo)
CleanupAfterRead(k, result) ==
  LET op == pending[k]
      texts == Append(op.texts, result)
  IN /\ UNCHANGED <<sidebarOpen, isLoaded, isLocalMode, isLoadingFile,
                    rootDirHandle, disk, nextId, nextHandle, diskIds, ops, fn>>
     /\ IF Tail(op.todo) = <<>>
          THEN StartDeleting(op, texts, k)
          ELSE /\ pending' = [pending EXCEPT
                                ![k] = [op EXCEPT !.todo = Tail(op.todo),
                                                  !.texts = texts]]
               /\ last' = Event("cleanup_scanning", pending'[k])
               /\ UNCHANGED <<fileSystem, activeFileId, storage, toasts>>

\* md.handle.getFile() and f.text() resolve
CleanupReadDone(k) ==
  LET op == pending[k]
      h == FindItem(op.fs, Head(op.todo)).handle
  IN /\ op.kind = "cleanup" /\ op.pc = "scan"
     /\ EntryExists(disk, h)
     /\ CleanupAfterRead(k, [id |-> Head(op.todo), ok |-> TRUE,
                             text |-> EntryOf(disk, h).text])

\* the read throws: the catch block logs and continues with the next note
CleanupReadFail(k) ==
  /\ pending[k].kind = "cleanup" /\ pending[k].pc = "scan"
  /\ CleanupAfterRead(k, [id |-> Head(pending[k].todo), ok |-> FALSE, text |-> <<>>])

\* removeEntry of the orphan Head(op.todo) resolves inside handleDeleteItem
CleanupDeleteDone(k) ==
  LET op == pending[k]
      id == Head(op.todo)
      item == FindItem(op.fs, id)
  IN /\ op.kind = "cleanup" /\ op.pc = "delete"
     /\ DirExists(disk, op.handle)
     /\ HasChildEntry(disk, op.handle, item.name)
     /\ disk' = RemoveEntry(disk, op.handle, item.name)
     /\ DeleteOrphanedImages(op, Tail(op.todo), op.count + 1,
                             deleteItemRecursive(op.fs, id),
                             IF op.active = id THEN 0 ELSE activeFileId, k)
     /\ UNCHANGED <<sidebarOpen, isLoaded, isLocalMode, isLoadingFile,
                    rootDirHandle, nextId, nextHandle, diskIds, ops, fn>>

\* removeEntry throws: handleDeleteItem returns, the loop counts the orphan
CleanupDeleteFail(k) ==
  LET op == pending[k]
  IN /\ op.kind = "cleanup" /\ op.pc = "delete"
     /\ DeleteOrphanedImages(op, Tail(op.todo), op.count + 1,
                             fileSystem, activeFileId, k)
     /\ UNCHANGED <<sidebarOpen, isLoaded, isLocalMode, isLoadingFile,
                    rootDirHandle, disk, nextId, nextHandle, diskIds, ops, fn>>

(***************************************************************************)
(* handleOpenLocalFolder and switchToBrowserMode                           *)
(***************************************************************************)
OpenLocalFolder ==
  /\ UiReady
  /\ CanSuspend
  /\ ops' = ops + 1
  /\ pending' = Append(pending, MkOp("open", "picker", 0, "none", <<>>, 0))
  /\ last' = Event("open_issue", pending'[Len(pending')])
  /\ UNCHANGED <<fileSystem, activeFileId, sidebarOpen, isLoaded, isLocalMode,
                 isLoadingFile, toasts, rootDirHandle, storage, disk, nextId,
                 nextHandle, diskIds, fn>>

\* showDirectoryPicker resolves: loadDirectoryContent shows the loading
\* screen and starts the scan
PickerDone(k) ==
  /\ pending[k].kind = "open" /\ pending[k].pc = "picker"
  /\ isLoaded' = FALSE
  /\ pending' = [pending EXCEPT ![k] = [@ EXCEPT !.pc = "scan", !.handle = RootHandle]]
  /\ last' = Event("open_picked", pending'[k])
  /\ UNCHANGED <<fileSystem, activeFileId, sidebarOpen, isLocalMode,
                 isLoadingFile, toasts, rootDirHandle, storage, disk, nextId,
                 nextHandle, diskIds, ops, fn>>

\* a slip of the catch block: the cancelled picker is reported like any
\* other error
PickerFailNotified(k) ==
  /\ pending[k].kind = "open" /\ pending[k].pc = "picker"
  /\ \E aborted \in BOOLEAN :
       /\ toasts' = Append(toasts, Toast("error", "open-failed"))
       /\ last' = Event(IF aborted THEN "open_aborted" ELSE "open_failed", pending[k])
  /\ isLoaded' = TRUE
  /\ pending' = RemoveAt(pending, k)
  /\ storage' = SavedDocument(fileSystem, activeFileId, sidebarOpen, TRUE, isLocalMode)
  /\ UNCHANGED <<fileSystem, activeFileId, sidebarOpen, isLocalMode,
                 isLoadingFile, rootDirHandle, disk, nextId, nextHandle,
                 diskIds, ops, fn>>

\* the picker rejects: AbortError when the user cancels (no notification),
\* any other error is shown
PickerFail(k) ==
  /\ pending[k].kind = "open" /\ pending[k].pc = "picker"
  /\ \E aborted \in BOOLEAN :
       /\ toasts' = IF aborted THEN toasts
                    ELSE Append(toasts, Toast("error", "open-failed"))
       /\ last' = Event(IF aborted THEN "open_aborted" ELSE "open_failed", pending[k])
  /\ isLoaded' = TRUE
  /\ pending' = RemoveAt(pending, k)
  /\ storage' = SavedDocument(fileSystem, activeFileId, sidebarOpen, TRUE, isLocalMode)
  /\ UNCHANGED <<fileSystem, activeFileId, sidebarOpen, isLocalMode,
                 isLoadingFile, rootDirHandle, disk, nextId, nextHandle,
                 diskIds, ops, fn>>

\* scanLocalDirectory resolves: updateAppState
ScanDone(k) ==
  LET op == pending[k]
      items == scanLocalDirectory(disk, op.handle, nextId)
  IN /\ op.kind = "open" /\ op.pc = "scan"
     /\ rootDirHandle' = op.handle
     /\ fileSystem' = items
     /\ isLocalMode' = TRUE
     /\ activeFileId' = 0
     /\ isLoaded' = TRUE
     /\ sidebarOpen' = TRUE
     /\ nextId' = nextId + Len(items)
     /\ diskIds' = diskIds \cup IdSet(items)
     /\ pending' = RemoveAt(pending, k)
     /\ last' = Event("open_ok", op)
     /\ UNCHANGED <<isLoadingFile, toasts, storage, disk, nextHandle, ops, fn>>

\* the enumeration throws: the catch block shows the error
ScanFail(k) ==
  /\ pending[k].kind = "open" /\ pending[k].pc = "scan"
  /\ isLoaded' = TRUE
  /\ toasts' = Append(toasts, Toast("error", "open-failed"))
  /\ pending' = RemoveAt(pending, k)
  /\ last' = Event("open_failed", pending[k])
  /\ storage' = SavedDocument(fileSystem, activeFileId, sidebarOpen, TRUE, isLocalMode)
  /\ UNCHANGED <<fileSystem, activeFileId, sidebarOpen, isLocalMode,
                 isLoadingFile, rootDirHandle, disk, nextId, nextHandle,
                 diskIds, ops, fn>>

SwitchToBrowserMode ==
  /\ UiReady
  /\ isLocalMode
  /\ ops' = ops + 1
  /\ rootDirHandle' = 0
  /\ isLocalMode' = FALSE
  /\ activeFileId' = 0
  /\ fileSystem' = LoadedFileSystem(storage)
  /\ storage' = setItem(storage, SerializeState(fileSystem', 0, sidebarOpen))
  /\ toasts' = Append(toasts, Toast("success", "browser-mode"))
  /\ last' = Event("switch", MkOp("switch", "done", 0, "none", <<>>, 0))
  /\ UNCHANGED <<sidebarOpen, isLoaded, isLoadingFile, disk, nextId, nextHandle,
                 diskIds, pending, fn>>

(***************************************************************************)
(* Initial states and the next-state relation                              *)
(***************************************************************************)
\* the names typed in the rename box
RenameNames == { <<"A", ".", "M", "D">> }

APng == <<"a", ".", "p", "n", "g">>

\* a document saved by an earlier session: folder d holding the note n.md
\* (active, its text names a.png) and the image a.png; a.png and b.png at
\* the root
SavedSession ==
  SerializeState(
    << MkItem(1, 0, <<"d">>, "folder", Undef, TRUE, 0, TRUE),
       MkItem(2, 1, <<"n", ".", "m", "d">>, "file", APng, TRUE, 0, TRUE),
       MkItem(3, 1, APng, "file", DataUri, TRUE, 0, FALSE),
       MkItem(4, 0, APng, "file", DataUri, TRUE, 0, FALSE),
       MkItem(5, 0, <<"b", ".", "p", "n", "g">>, "file", DataUri, TRUE, 0, FALSE) >>,
    2, TRUE)

\* what localStorage holds when the application is mounted
InitDocs == {NoDoc, SavedSession}

\* the directory the user grants: a.md (its text names img.png), img.png,
\* the hidden file .hid, and the directory sub holding b.md
UserDirectory ==
  { MkEntry(2, RootHandle, <<"a", ".", "m", "d">>, "file",
            <<"i", "m", "g", ".", "p", "n", "g">>),
    MkEntry(3, RootHandle, <<"i", "m", "g", ".", "p", "n", "g">>, "file", <<>>),
    MkEntry(4, RootHandle, <<"s", "u", "b">>, "directory", <<>>),
    MkEntry(5, 4, <<"b", ".", "m", "d">>, "file", <<>>),
    MkEntry(6, RootHandle, <<".", "h", "i", "d">>, "file", <<>>) }

NoFn == [items |-> <<>>, id |-> 0, out |-> <<>>, done |-> FALSE]

\* the state once the mount effect and the first save effect have run,
\* localStorage holding doc
Mounted(doc) ==
  /\ fileSystem = LoadedFileSystem(doc)
  /\ activeFileId = LoadedActiveId(doc)
  /\ sidebarOpen = LoadedSidebarOpen(doc)
  /\ storage = setItem(doc, SerializeState(LoadedFileSystem(doc),
                                           LoadedActiveId(doc),
                                           LoadedSidebarOpen(doc)))
  /\ isLoaded = TRUE
  /\ isLocalMode = FALSE
  /\ isLoadingFile = FALSE
  /\ toasts = <<>>
  /\ rootDirHandle = 0
  /\ disk = UserDirectory
  /\ nextId = 7
  /\ nextHandle = 7
  /\ diskIds = {}
  /\ pending = <<>>
  /\ ops = 0
  /\ last = Event("init", NoOp)

Init ==
  /\ \E doc \in InitDocs : Mounted(doc)
  /\ fn = NoFn

FolderIds ==
  {0} \cup {fileSystem[i].id : i \in {j \in 1..Len(fileSystem) :
                                        fileSystem[j].type = "folder"}}

Pending == 1..Len(pending)

\* the user's intents
CreateItemIntent ==
  \E type \in {"file", "folder"} : \E parentId \in FolderIds : CreateItem(type, parentId)
DeleteItemIntent == \E id \in IdSet(fileSystem) : DeleteItem(id)
ToggleFolderIntent == \E id \in IdSet(fileSystem) : ToggleFolder(id)
RenameItemIntent ==
  \E id \in IdSet(fileSystem) : \E newName \in RenameNames : RenameItem(id, newName)
FileSelectIntent == \E id \in IdSet(fileSystem) : FileSelect(id)
UpdateFileIntent ==
  \E content \in EditContents : UpdateFile(content) /\ UNCHANGED fn
ImageUploadIntent == \E fileName \in UploadNames : ImageUpload(fileName)

\* the backend calls that resolve or throw
CreateResolves == \E k \in Pending : CreateDone(k)
CreateThrows == \E k \in Pending : CreateFail(k)
DeleteResolves == \E k \in Pending : DeleteDone(k)
DeleteThrows == \E k \in Pending : DeleteFail(k)
RenameMoveResolves == \E k \in Pending : RenameMoveDone(k)
RenameFileResolves == \E k \in Pending : RenameFileDone(k)
RenameFolderResolves == \E k \in Pending : RenameFolderDone(k)
RenameThrows == \E k \in Pending : RenameFail(k)
FileSelectResolves == \E k \in Pending : FileSelectDone(k)
FileSelectThrows == \E k \in Pending : FileSelectFail(k)
UpdateFileResolves == \E k \in Pending : UpdateFileDone(k) /\ UNCHANGED fn
UpdateFileThrows == \E k \in Pending : UpdateFileFail(k) /\ UNCHANGED fn
ImageUploadResolves == \E k \in Pending : ImageUploadDone(k)
ImageUploadThrows == \E k \in Pending : ImageUploadFail(k)
CleanupReadResolves == \E k \in Pending : CleanupReadDone(k)
CleanupReadThrows == \E k \in Pending : CleanupReadFail(k)
CleanupDeleteResolves == \E k \in Pending : CleanupDeleteDone(k)
CleanupDeleteThrows == \E k \in Pending : CleanupDeleteFail(k)
PickerResolves == \E k \in Pending : PickerDone(k)
PickerRejects == \E k \in Pending : PickerFail(k)
ScanResolves == \E k \in Pending : ScanDone(k)
ScanThrows == \E k \in Pending : ScanFail(k)

Next ==
  \/ CreateItemIntent
  \/ DeleteItemIntent
  \/ ToggleFolderIntent
  \/ RenameItemIntent
  \/ FileSelectIntent
  \/ UpdateFileIntent
  \/ ImageUploadIntent
  \/ CleanupAssets
  \/ OpenLocalFolder
  \/ SwitchToBrowserMode
  \/ CreateResolves
  \/ CreateThrows
  \/ DeleteResolves
  \/ DeleteThrows
  \/ RenameMoveResolves
  \/ RenameFileResolves
  \/ RenameFolderResolves
  \/ RenameThrows
  \/ FileSelectResolves
  \/ FileSelectThrows
  \/ UpdateFileResolves
  \/ UpdateFileThrows
  \/ ImageUploadResolves
  \/ ImageUploadThrows
  \/ CleanupReadResolves
  \/ CleanupReadThrows
  \/ CleanupDeleteResolves
  \/ CleanupDeleteThrows
  \/ PickerResolves
  \/ PickerRejects
  \/ ScanResolves
  \/ ScanThrows

Spec == Init /\ [][Next]_vars

(***************************************************************************)
(* deleteItemRecursive on its own: the collections the application can     *)
(* hold, up to MaxDelItems items.  An item's parent is null (0), a folder  *)
(* of the collection or an id that is not in the collection; no item is    *)
(* its own ancestor.                                                       *)
(***************************************************************************)
RECURSIVE AncestorChain(_, _, _)
\* the ids met on the parentId chain that starts at parentId
AncestorChain(items, parentId, fuel) ==
  IF parentId = 0 \/ fuel = 0 THEN {}
  ELSE {parentId} \cup
       (IF HasId(items, parentId)
          THEN AncestorChain(items, FindItem(items, parentId).parentId, fuel - 1)
          ELSE {})

AncestorsOf(items, item) == AncestorChain(items, item.parentId, Len(items))

DelItem(id, parentId, type) ==
  MkItem(id, parentId, <<"x">>, type,
         IF type = "file" THEN <<>> ELSE Undef, TRUE, 0, TRUE)

WellFormed(items) ==
  \A i \in 1..Len(items) :
    /\ items[i].id \notin AncestorsOf(items, items[i])
    /\ HasId(items, items[i].parentId) =>
         FindItem(items, items[i].parentId).type = "folder"

DelCollections ==
  UNION { { c \in { [i \in 1..n |-> DelItem(i, parent[i], type[i])] :
                      parent \in [1..n -> 0..(n + 1)],
                      type \in [1..n -> {"file", "folder"}] } :
              WellFormed(c) } : n \in 1..MaxDelItems }

InitDelete ==
  /\ Mounted(NoDoc)
  /\ \E c \in DelCollections : \E id \in 1..(Len(c) + 1) :
       fn = [items |-> c, id |-> id, out |-> <<>>, done |-> FALSE]

DeleteRecursiveCall ==
  /\ ~fn.done
  /\ fn' = [fn EXCEPT !.out = deleteItemRecursive(fn.items, fn.id),
                      !.done = TRUE]
  /\ UNCHANGED appVars

SpecDelete == InitDelete /\ [][DeleteRecursiveCall]_vars

(***************************************************************************)
(* deleteItemRecursive applied twice with the same id, to any collection   *)
(* of up to MaxDelItems items with distinct ids: a parentId is null (0),   *)
(* any id of the collection (the item's own included) or an absent id.     *)
(***************************************************************************)
AnyCollections ==
  UNION { { [i \in 1..n |-> DelItem(i, parent[i], type[i])] :
              parent \in [1..n -> 0..(n + 1)],
              type \in [1..n -> {"file", "folder"}] } : n \in 1..MaxDelItems }

InitDeleteTwice ==
  /\ Mounted(NoDoc)
  /\ \E c \in AnyCollections : \E id \in 1..(Len(c) + 1) :
       fn = [items |-> c, id |-> id, out |-> <<>>, done |-> FALSE,
             again |-> <<>>, twice |-> FALSE]

\* deleteItemRecursive(deleteItemRecursive(items, id), id)
DeleteRecursiveAgain ==
  /\ fn.done
  /\ ~fn.twice
  /\ fn' = [fn EXCEPT !.again = deleteItemRecursive(fn.out, fn.id),
                      !.twice = TRUE]
  /\ UNCHANGED appVars

SpecDeleteTwice ==
  InitDeleteTwice /\ [][DeleteRecursiveCall \/ DeleteRecursiveAgain]_vars

(***************************************************************************)
(* scanLocalDirectory applied to every directory of up to MaxScanEntries   *)
(* entries: an entry lies in the root or in a directory with a smaller     *)
(* handle, names are plain or hidden, and no two entries of one directory  *)
(* share a name.                                                           *)
(***************************************************************************)
ScanNames == { <<"a">>, <<"b">>, <<".", "c">> }

\* the directory whose entry with handle h + 1 has parent[h], name[h], kind[h]
ScanDirectory(n, parent, name, kind) ==
  { MkEntry(h + 1, parent[h], name[h], kind[h], <<>>) : h \in 1..n }

ValidDirectory(d) ==
  /\ \A e \in d : DirExists(d, e.parent)
  /\ \A e1, e2 \in d : (e1.parent = e2.parent /\ e1.name = e2.name) => e1 = e2

InitScan ==
  /\ Mounted(NoDoc)
  /\ \E n \in 1..MaxScanEntries :
       \E parent \in {p \in [1..n -> 1..n] : \A h \in 1..n : p[h] <= h},
          kind \in [1..n -> {"file", "directory"}],
          name \in [1..n -> ScanNames] :
         /\ ValidDirectory(ScanDirectory(n, parent, name, kind))
         /\ fn = [dir |-> ScanDirectory(n, parent, name, kind), out |-> <<>>,
                  done |-> FALSE]

ScanCall ==
  /\ ~fn.done
  /\ fn' = [fn EXCEPT !.out = scanLocalDirectory(fn.dir, RootHandle, 7),
                      !.done = TRUE]
  /\ UNCHANGED appVars

SpecScan == InitScan /\ [][ScanCall]_vars

(***************************************************************************)
(* getChildItems applied to every collection of up to MaxSortItems items   *)
(* with distinct ids, the parents null (0) or one of two ids.              *)
(***************************************************************************)
SortNames == { <<"b">>, <<"B">>, <<"a", ".", "m", "d">> }

SortParents == {0, 1}

InitChildren ==
  /\ Mounted(NoDoc)
  /\ \E n \in 1..MaxSortItems :
       \E parent \in [1..n -> SortParents], name \in [1..n -> SortNames],
          type \in [1..n -> {"file", "folder"}], parentId \in SortParents :
         fn = [items |-> [i \in 1..n |->
                            MkItem(i, parent[i], name[i], type[i],
                                   IF type[i] = "file" THEN <<>> ELSE Undef,
                                   TRUE, 0, FALSE)],
               parentId |-> parentId, out |-> <<>>, done |-> FALSE]

GetChildItemsCall ==
  /\ ~fn.done
  /\ fn' = [fn EXCEPT !.out = getChildItems(fn.items, fn.parentId),
                      !.done = TRUE]
  /\ UNCHANGED appVars

SpecChildren == InitChildren /\ [][GetChildItemsCall]_vars

(***************************************************************************)
(* The tree view of the sidebar.  A view is the set of the rows drawn: the *)
(* id of an item and whether it is drawn open.  components/Sidebar.tsx     *)
(* tests the names itself; the sidebar with highlighting (the source file  *)
(* that imports searchFileSystem) reads the results of searchFileSystem,   *)
(* which is not among the sources and is taken from the specification:     *)
(* one result per item, matching when the item's name contains the query   *)
(* case-insensitively, everything matching the empty query.                *)
(***************************************************************************)
\* name.toLowerCase().includes(searchQuery.toLowerCase())
NameHasQuery(name, query) == includes(toLowerCase(name), toLowerCase(query))

Row(item, open) == [id |-> item.id, open |-> open]

ItemsIn(seq) == {seq[i] : i \in 1..Len(seq)}

RECURSIVE hasVisibleChildren(_, _, _)
hasVisibleChildren(items, parentId, query) ==
  \E c \in ItemsIn(getChildItems(items, parentId)) :
    /\ ShownInSidebar(c)
    /\ \/ NameHasQuery(c.name, query)
       \/ c.type = "folder" /\ hasVisibleChildren(items, c.id, query)

RECURSIVE renderTreeItem(_, _, _)
\* components/Sidebar.tsx: the rows drawn for item and what lies below it
renderTreeItem(items, item, query) ==
  LET isVisible == IF query # <<>> THEN NameHasQuery(item.name, query) ELSE TRUE
      shouldShow == \/ isVisible
                    \/ item.type = "folder"
                       /\ hasVisibleChildren(items, item.id, query)
      isOpen == IF query # <<>> THEN TRUE ELSE item.isOpen
  IN IF ~ShownInSidebar(item) THEN {}
     ELSE IF query # <<>> /\ ~shouldShow THEN {}
     ELSE {Row(item, item.type = "folder" /\ isOpen)}
          \cup (IF item.type = "folder" /\ isOpen
                  THEN UNION {renderTreeItem(items, c, query) :
                                c \in ItemsIn(getChildItems(items, item.id))}
                  ELSE {})

\* rootItems.map(item => renderTreeItem(item))
SidebarTree(items, query) ==
  UNION {renderTreeItem(items, c, query) : c \in ItemsIn(getChildItems(items, 0))}

\* searchFileSystem(items, searchQuery), from the specification
searchFileSystem(items, query) ==
  [i \in 1..Len(items) |->
     [item |-> items[i],
      matches |-> query = <<>> \/ NameHasQuery(items[i].name, query)]]

shouldFolderBeOpen(folderId, searchResults) ==
  \E k \in 1..Len(searchResults) :
    searchResults[k].item.parentId = folderId /\ searchResults[k].matches

RECURSIVE renderSearchTreeItem(_, _, _)
\* renderTreeItem of the sidebar with highlighting
renderSearchTreeItem(items, item, query) ==
  LET searchResults == searchFileSystem(items, query)
      isItemMatch == \E k \in 1..Len(searchResults) :
                       /\ searchResults[k].item.id = item.id
                       /\ searchResults[k].matches
      isFolderOpen == IF query # <<>>
                        THEN shouldFolderBeOpen(item.id, searchResults) \/ item.isOpen
                        ELSE item.isOpen
      shouldShow == \/ query = <<>>
                    \/ isItemMatch
                    \/ item.type = "folder"
                       /\ shouldFolderBeOpen(item.id, searchResults)
  IN IF ~ShownInSidebar(item) THEN {}
     ELSE IF query # <<>> /\ ~shouldShow THEN {}
     ELSE {Row(item, item.type = "folder" /\ isFolderOpen)}
          \cup (IF item.type = "folder" /\ isFolderOpen
                  THEN UNION {renderSearchTreeItem(items, c, query) :
                                c \in ItemsIn(getChildItems(items, item.id))}
                  ELSE {})

SearchSidebarTree(items, query) ==
  UNION {renderSearchTreeItem(items, c, query) :
           c \in ItemsIn(getChildItems(items, 0))}

\* the collections drawn: up to MaxTreeItems items, an item lies at the root
\* or in a folder that stands before it
TreeKinds ==
  { [type |-> "folder", name |-> <<"x">>],
    [type |-> "folder", name |-> <<"q">>],
    [type |-> "file", name |-> <<"x", ".", "m", "d">>],
    [type |-> "file", name |-> <<"q", ".", "M", "D">>],
    [type |-> "file", name |-> <<"q", ".", "p", "n", "g">>] }

TreeQueries == { <<>>, <<"Q">> }

TreeItems(n, parent, kind, open) ==
  [i \in 1..n |->
     MkItem(i, parent[i], kind[i].name, kind[i].type,
            IF kind[i].type = "file" THEN <<>> ELSE Undef, TRUE, 0,
            kind[i].type = "folder" /\ open[i])]

InitSidebar ==
  /\ Mounted(NoDoc)
  /\ \E n \in 1..MaxTreeItems :
       \E kind \in [1..n -> TreeKinds], open \in [1..n -> BOOLEAN],
          query \in TreeQueries :
         \E parent \in {p \in [1..n -> 0..(n - 1)] :
                          \A i \in 1..n :
                            /\ p[i] < i
                            /\ p[i] # 0 => kind[p[i]].type = "folder"} :
           /\ \A i \in 1..n : kind[i].type = "file" => ~open[i]
           /\ fn = [items |-> TreeItems(n, parent, kind, open), query |-> query,
                    view |-> "none", rows |-> {}]

\* components/Sidebar.tsx draws the tree
RenderSidebar ==
  /\ fn.view = "none"
  /\ fn' = [fn EXCEPT !.view = "sidebar",
                      !.rows = SidebarTree(fn.items, fn.query)]
  /\ UNCHANGED appVars

\* the sidebar with highlighting draws the tree
RenderSearchSidebar ==
  /\ fn.view = "none"
  /\ fn' = [fn EXCEPT !.view = "search",
                      !.rows = SearchSidebarTree(fn.items, fn.query)]
  /\ UNCHANGED appVars

SpecSidebar == InitSidebar /\ [][RenderSidebar \/ RenderSearchSidebar]_vars

(***************************************************************************)
(* Persisted mode on its own: the page is opened on what localStorage      *)
(* holds, used in memory mode, closed and opened again.  fn records the    *)
(* document the last mount read and the state the page was closed in.      *)
(***************************************************************************)
\* setSidebarOpen(false) of the overlay and of the sidebar's close button,
\* setSidebarOpen(true) of the menu button
SetSidebarOpen(open) ==
  /\ UiReady
  /\ sidebarOpen # open
  /\ sidebarOpen' = open
  /\ storage' = SavedDocument(fileSystem, activeFileId, open, isLoaded, isLocalMode)
  /\ ops' = ops + 1
  /\ last' = Event("sidebar", MkOp("sidebar", "done", 0,
                                   IF open THEN "open" ELSE "close", <<>>, 0))
  /\ UNCHANGED <<fileSystem, activeFileId, isLoaded, isLocalMode, isLoadingFile,
                 toasts, rootDirHandle, disk, nextId, nextHandle, diskIds,
                 pending>>

\* the component before its effects have run: the useState initial values
Unmounted(doc) ==
  /\ fileSystem = <<>>
  /\ activeFileId = 0
  /\ sidebarOpen = TRUE
  /\ storage = doc
  /\ isLoaded = FALSE
  /\ isLocalMode = FALSE
  /\ isLoadingFile = FALSE
  /\ toasts = <<>>
  /\ rootDirHandle = 0
  /\ disk = UserDirectory
  /\ nextId = 7
  /\ nextHandle = 7
  /\ diskIds = {}
  /\ pending = <<>>
  /\ ops = 0
  /\ last = Event("unmounted", NoOp)

\* the mount effect, and the save effect of the render that follows it
LoadEffect ==
  /\ last.label = "unmounted"
  /\ fileSystem' = LoadedFileSystem(storage)
  /\ activeFileId' = LoadedActiveId(storage)
  /\ sidebarOpen' = LoadedSidebarOpen(storage)
  /\ isLoaded' = TRUE
  /\ storage' = setItem(storage, SerializeState(fileSystem', activeFileId',
                                               sidebarOpen'))
  /\ last' = Event("mounted", NoOp)
  /\ UNCHANGED <<isLocalMode, isLoadingFile, toasts, rootDirHandle, disk,
                 nextId, nextHandle, diskIds, pending, ops>>

\* the page is closed and opened again: React state and suspended handlers
\* are gone, localStorage stays
ClosePage ==
  /\ UiReady
  /\ ~isLocalMode
  /\ fileSystem' = <<>>
  /\ activeFileId' = 0
  /\ sidebarOpen' = TRUE
  /\ isLoaded' = FALSE
  /\ isLoadingFile' = FALSE
  /\ toasts' = <<>>
  /\ pending' = <<>>
  /\ ops' = ops + 1
  /\ last' = Event("unmounted", NoOp)
  /\ UNCHANGED <<isLocalMode, rootDirHandle, storage, disk, nextId, nextHandle,
                 diskIds>>

\* a bare array of items, as an older version stored it
LegacyArray ==
  [shape |-> "array", fileSystem |-> SavedSession.fileSystem,
   activeFileId |-> 0, sidebarOpen |-> TRUE]

\* a text JSON.parse rejects
Unparsable ==
  [shape |-> "unparsable", fileSystem |-> <<>>, activeFileId |-> 0,
   sidebarOpen |-> TRUE]

\* a JSON value that is neither an array nor an object with a fileSystem
OtherShape ==
  [shape |-> "other", fileSystem |-> <<>>, activeFileId |-> 0,
   sidebarOpen |-> TRUE]

\* an object whose activeFileId names no item of its fileSystem
StaleActive == [SavedSession EXCEPT !.activeFileId = 6]

StoredDocs == InitDocs \cup {LegacyArray, Unparsable, OtherShape, StaleActive}

NoJournal ==
  [doc |-> NoDoc, saved |-> <<>>, savedActive |-> 0, savedSidebar |-> TRUE,
   written |-> FALSE]

InitSave ==
  /\ \E doc \in StoredDocs : Unmounted(doc)
  /\ fn = NoJournal

PageOpened == LoadEffect /\ fn' = [fn EXCEPT !.doc = storage]

\* written: whether the last save effect stored the state the page is
\* closed in
PageClosed ==
  /\ ClosePage
  /\ fn' = [fn EXCEPT !.saved = fileSystem, !.savedActive = activeFileId,
                      !.savedSidebar = sidebarOpen,
                      !.written = (storage = SerializeState(fileSystem,
                                                            activeFileId,
                                                            sidebarOpen))]

SidebarIntent == \E open \in BOOLEAN : SetSidebarOpen(open) /\ UNCHANGED fn

SpecSave ==
  InitSave /\ [][PageOpened \/ PageClosed \/ SidebarIntent \/ CreateItemIntent
                  \/ DeleteItemIntent \/ ToggleFolderIntent \/ RenameItemIntent
                  \/ FileSelectIntent \/ UpdateFileIntent \/ ImageUploadIntent
                  \/ ImageUploadResolves \/ ImageUploadThrows]_vars

(***************************************************************************)
(* handleUpdateFile on its own: the edits of the one active note, in       *)
(* memory mode (n.md of SavedSession) and in disk mode (a.md of            *)
(* UserDirectory, selected and loaded).  fn records the texts in the order *)
(* they were issued and how many writes have resolved and thrown.          *)
(***************************************************************************)
\* the texts the editor hands to onUpdate
EditTexts == { <<"c", "1">>, <<"c", "2">> }

NoEdits == [issued |-> <<>>, written |-> 0, failed |-> 0]

\* the collection after handleOpenLocalFolder on UserDirectory and
\* handleFileSelect of a.md: the scanned items, a.md loaded
OpenedItems ==
  LET scanned == scanLocalDirectory(UserDirectory, RootHandle, 7)
  IN [i \in 1..Len(scanned) |->
        IF scanned[i].name = <<"a", ".", "m", "d">>
          THEN [scanned[i] EXCEPT
                  !.content = EntryOf(UserDirectory, scanned[i].handle).text,
                  !.isLoaded = TRUE]
          ELSE scanned[i]]

\* disk mode with a.md in the editor
OpenedNote ==
  /\ fileSystem = OpenedItems
  /\ activeFileId = (CHOOSE i \in 1..Len(OpenedItems) : OpenedItems[i].isLoaded) + 6
  /\ sidebarOpen = TRUE
  /\ storage = SerializeState(LoadedFileSystem(SavedSession),
                              LoadedActiveId(SavedSession), TRUE)
  /\ isLoaded = TRUE
  /\ isLocalMode = TRUE
  /\ isLoadingFile = FALSE
  /\ toasts = <<>>
  /\ rootDirHandle = RootHandle
  /\ disk = UserDirectory
  /\ nextId = 7 + Len(OpenedItems)
  /\ nextHandle = 7
  /\ diskIds = IdSet(OpenedItems)
  /\ pending = <<>>
  /\ ops = 0
  /\ last = Event("init", NoOp)

InitEdit ==
  /\ Mounted(SavedSession) \/ OpenedNote
  /\ fn = NoEdits

\* onUpdate(content); in memory mode the edit is complete at once
EditIssued ==
  \E content \in EditTexts :
    /\ UpdateFile(content)
    /\ fn' = [fn EXCEPT !.issued = Append(@, content),
                        !.written = IF pending' = pending THEN @ + 1 ELSE @]

EditWritten ==
  \E k \in Pending : UpdateFileDone(k) /\ fn' = [fn EXCEPT !.written = @ + 1]

EditWriteFailed ==
  \E k \in Pending : UpdateFileFail(k) /\ fn' = [fn EXCEPT !.failed = @ + 1]

SpecEdit == InitEdit /\ [][EditIssued \/ EditWritten \/ EditWriteFailed]_vars

(***************************************************************************)
(* handleFileSelect on its own, called with any file of the collection,    *)
(* after a directory has been opened or in memory mode.  A read that has   *)
(* been started settles: it resolves or it throws.                         *)
(***************************************************************************)
SelectCall ==
  \E id \in IdSet(fileSystem) : handleFileSelect(id)

SpecSelect ==
  /\ Init
  /\ [][OpenLocalFolder \/ PickerResolves \/ ScanResolves \/ SelectCall
          \/ FileSelectResolves \/ FileSelectThrows]_vars
  /\ WF_vars(FileSelectResolves \/ FileSelectThrows)

(***************************************************************************)
(* The loadAssets effect (App.tsx 126-176) in disk mode, with a.md of      *)
(* UserDirectory in the editor.  fn holds the assets map (name and object  *)
(* URL), the number of object URLs created so far (the URLs are 1, 2, ...),*)
(* the URLs released, and the dependencies the effect last ran for.        *)
(***************************************************************************)
NoAssets == [assets |-> {}, created |-> 0, released |-> {}, deps |-> <<>>]

\* lines 134-135: the sibling files of the active item that look like images
imageItems(fs, active) ==
  SelectSeq(fs, LAMBDA i : /\ i.parentId = FindItem(fs, active).parentId
                           /\ i.type = "file"
                           /\ IsImageName(i.name))

\* lines 139-158 in disk mode: the images whose getFile() resolves
LoadableImages(fs, active, d) ==
  SelectSeq(imageItems(fs, active),
            LAMBDA i : i.handle # 0 /\ EntryExists(d, i.handle))

\* newAssets: one fresh object URL per image read, the last one of a name
\* stays in the map
NewAssets(images, created) ==
  { [name |-> images[k].name, url |-> created + k] :
      k \in { j \in 1..Len(images) :
                \A l \in (j + 1)..Len(images) : images[l].name # images[j].name } }

\* the effect runs for the dependencies of the latest render (the 50 ms timer
\* of an earlier render is cleared); no URL is revoked anywhere in App.tsx
LoadAssetsEffect ==
  /\ isLocalMode
  /\ fn.deps # <<fileSystem, activeFileId>>
  /\ LET ran == activeFileId # 0 /\ HasId(fileSystem, activeFileId)
         images == IF ran THEN LoadableImages(fileSystem, activeFileId, disk)
                   ELSE <<>>
     IN fn' = [assets |-> IF ran THEN NewAssets(images, fn.created) ELSE fn.assets,
               created |-> fn.created + Len(images),
               released |-> fn.released,
               deps |-> <<fileSystem, activeFileId>>]
  /\ UNCHANGED appVars

InitAssets ==
  /\ OpenedNote
  /\ fn = NoAssets

SpecAssets ==
  InitAssets /\ [][LoadAssetsEffect \/ UpdateFileIntent \/ UpdateFileResolves
                    \/ UpdateFileThrows \/ FileSelectIntent
                    \/ FileSelectResolves \/ FileSelectThrows
                    \/ ToggleFolderIntent]_vars

(***************************************************************************)
(* The Editor (Editor.tsx 52-76) under App's render (App.tsx 723-737).     *)
(* fn.editor is the mounted Editor: the id it is keyed by (0: none), its   *)
(* content prop and its localContent.  fn.unsaved is history: the text     *)
(* typed last that has not been handed to onUpdate, and the item it was    *)
(* typed in.  The 500 ms timer is pending exactly while the Editor is      *)
(* mounted and localContent differs from content (lines 68-75); unmounting *)
(* clears it (line 75).                                                    *)
(***************************************************************************)
NoEditor == [id |-> 0, content |-> <<>>, localContent |-> <<>>]

NoUnsaved == [id |-> 0, text |-> <<>>]

\* App.tsx 723-737: the key and the content prop of the Editor App renders
EditorKey == IF EditorShown THEN activeFileId ELSE 0

EditorContent ==
  IF EditorShown /\ FindItem(fileSystem, activeFileId).content # Undef
    THEN FindItem(fileSystem, activeFileId).content
    ELSE <<>>

\* the mounted Editor is the one of the latest render of App
EditorInSync ==
  /\ fn.editor.id = EditorKey
  /\ fn.editor.id # 0 => fn.editor.content = EditorContent

\* React commits App's render: another key mounts a new Editor (useState
\* at line 52), a changed content prop overwrites localContent (63-65)
EditorRenders ==
  /\ ~EditorInSync
  /\ fn' = [fn EXCEPT !.editor =
              IF EditorKey = 0 THEN NoEditor
              ELSE [id |-> EditorKey, content |-> EditorContent,
                    localContent |-> EditorContent]]
  /\ UNCHANGED appVars

\* line 521: onChange of the textarea
EditorTypes ==
  \E text \in EditTexts :
    /\ EditorInSync
    /\ fn.editor.id # 0
    /\ fn.editor.localContent # text
    /\ fn' = [fn EXCEPT !.editor.localContent = text,
                        !.unsaved = [id |-> fn.editor.id, text |-> text]]
    /\ UNCHANGED appVars

\* lines 68-74: the timer fires and hands localContent to handleUpdateFile
DebounceFires ==
  /\ EditorInSync
  /\ fn.editor.id # 0
  /\ fn.editor.localContent # fn.editor.content
  /\ UpdateFile(fn.editor.localContent)
  /\ fn' = [fn EXCEPT !.unsaved = NoUnsaved]

InitEditor ==
  /\ Mounted(SavedSession) \/ OpenedNote
  /\ fn = [editor |-> NoEditor, unsaved |-> NoUnsaved]

\* an intent or a completion meets the Editor of the latest render
WhileEditing(A) == EditorInSync /\ A

SpecEditor ==
  InitEditor /\ [][EditorRenders \/ EditorTypes \/ DebounceFires
                    \/ WhileEditing(FileSelectIntent)
                    \/ WhileEditing(FileSelectResolves)
                    \/ WhileEditing(FileSelectThrows)
                    \/ WhileEditing(UpdateFileResolves)
                    \/ WhileEditing(UpdateFileThrows)
                    \/ WhileEditing(DeleteItemIntent)
                    \/ WhileEditing(DeleteResolves)
                    \/ WhileEditing(DeleteThrows)]_vars

(***************************************************************************)
(* Properties                                                              *)
(***************************************************************************)
\* C1: every item of the Tree Store whose parentId is not null has a parent
\* that is in the Tree Store and is a folder
C1_ParentsAreFolders ==
  \A i \in 1..Len(fileSystem) :
    fileSystem[i].parentId # 0 =>
      /\ HasId(fileSystem, fileSystem[i].parentId)
      /\ FindItem(fileSystem, fileSystem[i].parentId).type = "folder"

\* C2: for an id F of the collection, deleteItemRecursive(items, F) is the
\* collection without F and without the items that have F on their parentId
\* chain, the others unchanged and in their order
C2_DeleteRemovesSubtree ==
  (fn.done /\ HasId(fn.items, fn.id)) =>
    fn.out = SelectSeq(fn.items,
                       LAMBDA i : /\ i.id # fn.id
                                  /\ fn.id \notin AncestorsOf(fn.items, i))

\* a folder is deleted that holds a folder that holds an item
C2_Witness ==
  /\ fn.done
  /\ HasId(fn.items, fn.id)
  /\ \E i, j \in 1..Len(fn.items) :
       /\ fn.items[i].parentId = fn.id
       /\ fn.items[j].parentId = fn.items[i].id
  /\ Len(fn.out) = Len(fn.items) - 3

\* the text of a note: what the Tree Store holds once the note is loaded,
\* the text of its file before
NoteText(d, md) ==
  IF md.handle # 0 /\ ~md.isLoaded /\ EntryExists(d, md.handle)
    THEN EntryOf(d, md.handle).text
    ELSE (IF md.content = Undef THEN <<>> ELSE md.content)

\* the name of img occurs in the text of a note of its folder scope
ReferencedInScope(fs, d, img) ==
  \E k \in 1..Len(fs) :
    /\ fs[k].parentId = img.parentId
    /\ IsMarkdownName(fs[k].name)
    /\ includes(NoteText(d, fs[k]), img.name)

IsAsset(item) == item.type = "file" /\ IsImageName(item.name)

\* the orphaned assets of fs, as ids
OrphanedAssets(fs, d) ==
  { fs[k].id : k \in { j \in 1..Len(fs) :
                         IsAsset(fs[j]) /\ ~ReferencedInScope(fs, d, fs[j]) } }

\* C3: a cleanup ends with the Tree Store it was run on minus its orphaned
\* assets, and reports as many deletions as items were removed
C3_CleanupRemovesTheOrphans ==
  last.label = "cleanup_done" =>
    /\ fileSystem = SelectSeq(last.op.fs,
                              LAMBDA i : i.id \notin OrphanedAssets(last.op.fs, disk))
    /\ last.op.count = Len(last.op.fs) - Len(fileSystem)

\* the assets the cleanup that has just ended took out of the Tree Store
CleanupDeleted ==
  { last.op.orphans[k] :
      k \in { j \in 1..Len(last.op.orphans) :
                ~HasId(fileSystem, last.op.orphans[j]) } }

\* a cleanup has ended in the mode it was started in
CleanupEnded == last.label = "cleanup_done" /\ last.op.local = isLocalMode

\* C4: the cleanup deletes no image whose name occurs in the text of a note
\* with the same parentId
C4_ReferencedImageSurvives ==
  CleanupEnded =>
    \A id \in CleanupDeleted :
      ~ReferencedInScope(last.op.fs, disk, FindItem(last.op.fs, id))

\* C5: when the read of a note failed during the pass, the cleanup deletes
\* no asset of that note's folder scope
C5_UnreadableNoteProtectsScope ==
  CleanupEnded =>
    \A r \in 1..Len(last.op.texts) :
      ~last.op.texts[r].ok =>
        \A id \in CleanupDeleted :
          FindItem(last.op.fs, id).parentId
            # FindItem(last.op.fs, last.op.texts[r].id).parentId

\* C6: in disk mode neither the step that issues the physical operation of
\* a create, rename or delete nor the step in which that operation throws
\* changes the Tree Store or the active id
C6_FailureLeavesTreeStore ==
  [][ (last'.label \in {"create_issue", "rename_issue", "delete_issue",
                        "create_fail", "rename_fail", "delete_fail"}
       /\ last'.op.local)
        => (fileSystem' = fileSystem /\ activeFileId' = activeFileId) ]_vars

\* a physical operation has thrown in disk mode while the Tree Store holds
\* the scanned items and a note is active
C6_Witness ==
  /\ last.label \in {"create_fail", "rename_fail", "delete_fail"}
  /\ last.op.local
  /\ isLocalMode
  /\ activeFileId # 0
  /\ fileSystem # <<>>

\* C7: in disk mode no step removes from the Tree Store an item whose
\* physical entry is on the disk after the step
C7_NoRemovalWhileEntryExists ==
  [][ (isLocalMode /\ isLocalMode' /\ last'.label # "open_ok") =>
        \A i \in 1..Len(fileSystem) :
          (fileSystem[i].handle # 0 /\ EntryExists(disk', fileSystem[i].handle))
            => HasId(fileSystem', fileSystem[i].id) ]_vars

\* C8: the stored document holds no item that was scanned or created in
\* disk mode
C8_StorageHoldsNoDiskItem ==
  \A k \in 1..Len(storage.fileSystem) : storage.fileSystem[k].id \notin diskIds

\* C9: no two items with the same parentId have names that are equal when
\* compared case-insensitively
C9_SiblingNamesUnique ==
  \A i, j \in 1..Len(fileSystem) :
    (i # j /\ fileSystem[i].parentId = fileSystem[j].parentId)
      => toLowerCase(fileSystem[i].name) # toLowerCase(fileSystem[j].name)

\* the desired name with " (k)" before its extension, at its end when it
\* has none
NameVariant(desired, k) ==
  IF \E p \in 2..Len(desired) : desired[p] = "."
    THEN LET dot == CHOOSE p \in 2..Len(desired) :
                      /\ desired[p] = "."
                      /\ \A q \in (p + 1)..Len(desired) : desired[q] # "."
         IN SubSeq(desired, 1, dot - 1) \o CountSuffix(k)
              \o SubSeq(desired, dot, Len(desired))
    ELSE desired \o CountSuffix(k)

EditedNote == FindItem(fileSystem, activeFileId)

\* C11: once two or more edits of the note have been issued and every one
\* of them has completed, the Tree Store holds the text issued last and, in
\* disk mode, so does the file
C11_LastEditWins ==
  (Len(fn.issued) >= 2 /\ fn.written = Len(fn.issued)) =>
    /\ EditedNote.content = fn.issued[Len(fn.issued)]
    /\ isLocalMode =>
         EntryOf(disk, EditedNote.handle).text = fn.issued[Len(fn.issued)]

\* C12: deleteItemRecursive with an id that is not in the collection returns
\* the collection as it is, and deleting the same id a second time changes
\* nothing more
C12_DeleteIdempotent ==
  /\ (fn.done /\ ~HasId(fn.items, fn.id)) => fn.out = fn.items
  /\ fn.twice => fn.again = fn.out

\* a folder with descendants was deleted, something is left, and the second
\* deletion was applied
C12_Witness ==
  /\ fn.twice
  /\ HasId(fn.items, fn.id)
  /\ Len(fn.out) > 0
  /\ Len(fn.out) < Len(fn.items) - 1

\* the document of the state a step leaves is over the quota: setItem throws
SaveFailsInStep == isLoaded' /\ ItemsSize(fileSystem') > StorageQuota

\* what the handler that took the step sets in the React state
HandlerOutcome ==
  LET op == last'.op
      n == Len(fileSystem')
  IN CASE last'.label = "toggle" ->
            FindItem(fileSystem', op.id).isOpen = ~FindItem(fileSystem, op.id).isOpen
       [] last'.label = "edit_ok" ->
            FindItem(fileSystem', activeFileId).content = op.texts[1]
       [] last'.label = "select_ok" -> activeFileId' = op.id
       [] last'.label = "delete_ok" ->
            /\ ~HasId(fileSystem', op.id)
            /\ Len(fileSystem') < Len(fileSystem)
       [] last'.label = "rename_ok" -> FindItem(fileSystem', op.id).name = op.name
       [] last'.label = "create_ok" ->
            /\ n = Len(fileSystem) + 1
            /\ fileSystem'[n].name = op.name
            /\ op.type = "file" => activeFileId' = fileSystem'[n].id
       [] last'.label = "upload_ok" ->
            /\ n = Len(fileSystem) + 1
            /\ fileSystem'[n].name = op.name
       [] last'.label = "sidebar" -> sidebarOpen' = (op.type = "open")
       [] last'.label = "mounted" ->
            /\ fileSystem' = LoadedFileSystem(storage)
            /\ sidebarOpen' = LoadedSidebarOpen(storage)
       [] OTHER -> UNCHANGED <<fileSystem, activeFileId, sidebarOpen>>

\* C13: in persisted mode every step of a handler leaves in the Tree Store,
\* the active id and the sidebar toggle what the handler set, also when the
\* write of that state to the store fails; the store then keeps what it held
C13_FailedSaveKeepsState ==
  [][(~isLocalMode /\ last'.label # "unmounted")
       => /\ HandlerOutcome
          /\ SaveFailsInStep => storage' = storage]_vars

\* the sidebar was closed, the document is over the quota and the store
\* still holds the open sidebar
C13_Witness ==
  /\ last.label = "sidebar"
  /\ isLoaded /\ ~isLocalMode
  /\ ItemsSize(fileSystem) > StorageQuota
  /\ ~sidebarOpen
  /\ storage.sidebarOpen

\* what the claim has the loader take from the document the mount read
LoadedAsStated ==
  /\ fn.doc.shape = "array" => fileSystem = fn.doc.fileSystem
  /\ fn.doc.shape = "object" =>
       /\ fileSystem = fn.doc.fileSystem
       /\ activeFileId = IF HasId(fn.doc.fileSystem, fn.doc.activeFileId)
                           THEN fn.doc.activeFileId ELSE 0
  /\ fn.doc.shape \notin {"array", "object"} => fileSystem = initialData

\* C14: the mount takes a bare array as the collection, takes the collection
\* of an object and its active id when that id names an item of it, and
\* takes the initial data from anything else; a page closed on a state its
\* save effect has written comes back with the same collection, active id
\* and sidebar toggle
C14_LoadAndRoundTrip ==
  last.label = "mounted" =>
    /\ LoadedAsStated
    /\ fn.written =>
         /\ fileSystem = fn.saved
         /\ activeFileId = fn.savedActive
         /\ sidebarOpen = fn.savedSidebar

RECURSIVE VisibleEntry(_, _)
\* no component of the entry's path below the root starts with a dot
VisibleEntry(d, h) ==
  \/ h = RootHandle
  \/ /\ ~startsWith(EntryOf(d, h).name, <<".">>)
     /\ VisibleEntry(d, EntryOf(d, h).parent)

\* the positions of the items built for the entry h
ItemsOfEntry(out, h) == {k \in 1..Len(out) : out[k].handle = h}

\* C15: scanLocalDirectory returns one item for each entry that has no
\* dot-prefixed path component and nothing else; the item has the entry's
\* name and kind, is not loaded, has the item of the containing directory as
\* parent (null in the root), and comes after that parent's item
C15_ScanMirrorsDirectory ==
  fn.done =>
    /\ \A e \in fn.dir :
         Cardinality(ItemsOfEntry(fn.out, e.h))
           = IF VisibleEntry(fn.dir, e.h) THEN 1 ELSE 0
    /\ \A k \in 1..Len(fn.out) :
         /\ EntryExists(fn.dir, fn.out[k].handle)
         /\ LET e == EntryOf(fn.dir, fn.out[k].handle)
            IN /\ fn.out[k].name = e.name
               /\ fn.out[k].type = (IF e.kind = "directory" THEN "folder" ELSE "file")
               /\ ~fn.out[k].isLoaded
               /\ IF e.parent = RootHandle
                    THEN fn.out[k].parentId = 0
                    ELSE \E j \in 1..(k - 1) :
                           /\ fn.out[j].handle = e.parent
                           /\ fn.out[j].id = fn.out[k].parentId
    /\ \A j, k \in 1..Len(fn.out) : fn.out[j].id = fn.out[k].id => j = k

\* a directory with a visible folder holding an entry and a hidden folder
\* holding a plainly named entry
C15_Witness ==
  /\ fn.done
  /\ \E e \in fn.dir :
       e.parent # RootHandle /\ VisibleEntry(fn.dir, e.h)
  /\ \E e \in fn.dir :
       /\ e.parent # RootHandle
       /\ ~startsWith(e.name, <<".">>)
       /\ ~VisibleEntry(fn.dir, e.h)

\* C16: getChildItems returns the items whose parentId is the argument, each
\* once and no other, all folders before all files and, within a kind, in
\* ascending order of the names
C16_ChildrenSorted ==
  fn.done =>
    /\ \A i \in 1..Len(fn.items) :
         Cardinality({k \in 1..Len(fn.out) : fn.out[k] = fn.items[i]})
           = IF fn.items[i].parentId = fn.parentId THEN 1 ELSE 0
    /\ \A k \in 1..Len(fn.out) : fn.out[k].parentId = fn.parentId
    /\ \A j, k \in 1..Len(fn.out) :
         j < k =>
           /\ ~(fn.out[j].type = "file" /\ fn.out[k].type = "folder")
           /\ fn.out[j].type = fn.out[k].type =>
                localeCompare(fn.out[j].name, fn.out[k].name) <= 0

\* folders and files among the children, an item of another parent left
\* out, and the result in another order than the collection
C16_Witness ==
  /\ fn.done
  /\ Len(fn.out) >= 2
  /\ Len(fn.out) < Len(fn.items)
  /\ fn.out # SelectSeq(fn.items, LAMBDA item : item.parentId = fn.parentId)
  /\ \E j, k \in 1..Len(fn.out) : fn.out[j].type # fn.out[k].type

\* the item with this id is drawn
Displayed(id) == \E r \in fn.rows : r.id = id

\* the folder with this id is drawn open
Expanded(id) == \E r \in fn.rows : r.id = id /\ r.open

\* the item is a folder or a .md file whose name contains the query
MatchingItem(item) ==
  /\ item.type = "folder" \/ endsWith(toLowerCase(item.name), <<".", "m", "d">>)
  /\ includes(toLowerCase(item.name), toLowerCase(fn.query))

\* C17: with a query, every folder or .md file whose name contains the query
\* is drawn, and every folder above it is drawn and drawn open
C17_MatchesReachable ==
  (fn.view # "none" /\ fn.query # <<>>) =>
    \A i \in 1..Len(fn.items) :
      MatchingItem(fn.items[i]) =>
        /\ Displayed(fn.items[i].id)
        /\ \A a \in AncestorsOf(fn.items, fn.items[i]) :
             Displayed(a) /\ Expanded(a)

\* the collection without the files that are not .md files
WithoutOtherFiles(items) ==
  SelectSeq(items, LAMBDA item :
    item.type = "folder" \/ endsWith(toLowerCase(item.name), <<".", "m", "d">>))

\* C18: whatever the query, a file that is not a .md file is not drawn, and
\* the rows drawn are those drawn for the collection without such files
C18_OtherFilesHidden ==
  fn.view # "none" =>
    /\ \A i \in 1..Len(fn.items) :
         Displayed(fn.items[i].id) =>
           \/ fn.items[i].type = "folder"
           \/ endsWith(toLowerCase(fn.items[i].name), <<".", "m", "d">>)
    /\ fn.view = "sidebar" =>
         fn.rows = SidebarTree(WithoutOtherFiles(fn.items), fn.query)
    /\ fn.view = "search" =>
         fn.rows = SearchSidebarTree(WithoutOtherFiles(fn.items), fn.query)

\* C19: when the user cancels the directory picker, no notification is
\* shown, the Tree Store, the mode, the active id and the root handle stay
\* as they were, and the application is in its loaded state
C19_CancelChangesNothing ==
  [][last'.label = "open_aborted"
       => /\ UNCHANGED <<fileSystem, isLocalMode, activeFileId, rootDirHandle,
                         toasts>>
          /\ isLoaded']_vars

\* the picker was cancelled while a directory was open
C19_Witness ==
  /\ last.label = "open_aborted"
  /\ isLocalMode
  /\ rootDirHandle = RootHandle
  /\ fileSystem # <<>>

\* the images of the collection the cleanup op was issued on whose name
\* occurs in the text the pass read from the handle of a note of their scope
ProtectedByRead(op) ==
  { op.fs[k].id :
      k \in { j \in 1..Len(op.fs) :
                /\ IsAsset(op.fs[j])
                /\ \E r \in 1..Len(op.texts) :
                     /\ op.texts[r].ok
                     /\ FindItem(op.fs, op.texts[r].id).parentId = op.fs[j].parentId
                     /\ includes(op.texts[r].text, op.fs[j].name) } }

\* C20: in disk mode the cleanup reads a note that is not loaded from its
\* handle before the reference test: an image whose name occurs in the text
\* so read from a note of its scope is not among the orphans of the pass,
\* and no step of the pass takes it out of the Tree Store or off the disk
C20_UnloadedNoteIsRead ==
  [][(last'.label \in {"cleanup_deleting", "cleanup_done"} /\ last'.op.local)
       => \A id \in ProtectedByRead(last'.op) :
            /\ \A k \in 1..Len(last'.op.orphans) : last'.op.orphans[k] # id
            /\ HasId(fileSystem, id) => HasId(fileSystem', id)
            /\ EntryExists(disk, FindItem(last'.op.fs, id).handle)
                 => EntryExists(disk', FindItem(last'.op.fs, id).handle)]_vars

\* a cleanup in disk mode has ended after reading a note that was not
\* loaded, and an image named in the text it read is still there
C20_Witness ==
  /\ CleanupEnded /\ isLocalMode
  /\ \E id \in ProtectedByRead(last.op) :
       /\ HasId(fileSystem, id)
       /\ EntryExists(disk, FindItem(last.op.fs, id).handle)

\* C21: in disk mode, when the write of the one edit issued so far has
\* thrown, the Tree Store holds the note with the content it had before the
\* edit was issued
C21_FailedWriteKeepsContent ==
  (isLocalMode /\ Len(fn.issued) = 1 /\ fn.failed = 1) =>
    EditedNote.content = FindItem(OpenedItems, activeFileId).content

\* C22: the step in which the backend call of a disk-mode create, rename or
\* delete throws produces a notification (a toast or an alert)
C22_FailureIsNotified ==
  [][(last'.label \in {"create_fail", "rename_fail", "delete_fail"}
      /\ last'.op.local)
       => Len(toasts') = Len(toasts) + 1]_vars

\* C23: when a disk-mode folder rename by create, move and remove has
\* completed, the handle of the renamed folder and of every item below it
\* refers to an entry that exists on the disk
C23_RenamedFolderHandlesValid ==
  (last.label = "rename_ok" /\ last.op.pc = "folder") =>
    \A i \in 1..Len(fileSystem) :
      (fileSystem[i].id = last.op.id
       \/ last.op.id \in AncestorsOf(fileSystem, fileSystem[i]))
        => EntryExists(disk, fileSystem[i].handle)

\* a read started by handleFileSelect is in flight
ReadInFlight == \E k \in 1..Len(pending) : pending[k].kind = "select"

\* C24: handleFileSelect starts a read only in disk mode, for a file that is
\* not loaded and is not an image; when the read resolves the item holds
\* the text read from its handle and is marked loaded; when it throws, and
\* when no read is started (image, loaded file, memory mode), the collection
\* is left as it is; and a read that is in flight ends, loaded or failed
C24_LazyLoad ==
  /\ [][/\ last'.label = "select_issue"
             => /\ isLocalMode
                /\ ~FindItem(fileSystem, last'.op.id).isLoaded
                /\ ~IsImageName(last'.op.name)
        /\ (last'.label = "select_loaded" /\ HasId(fileSystem, last'.op.id))
             => /\ FindItem(fileSystem', last'.op.id).content
                     = EntryOf(disk, last'.op.handle).text
                /\ FindItem(fileSystem', last'.op.id).isLoaded
        /\ last'.label \in {"select_fail", "select_ok"}
             => fileSystem' = fileSystem
        /\ last'.label = "select_ok" => pending' = pending]_vars
  /\ ReadInFlight ~> last.label \in {"select_loaded", "select_fail"}

\* in disk mode the read of a note has resolved: the note is loaded and holds
\* the text of its file, and the image next to it, selected while the read
\* was in flight, is as it was scanned
C24_Witness ==
  /\ last.label = "select_loaded"
  /\ isLocalMode
  /\ \E i, j \in 1..Len(fileSystem) :
       /\ fileSystem[i].id = last.op.id
       /\ fileSystem[i].isLoaded
       /\ fileSystem[i].content = EntryOf(disk, fileSystem[i].handle).text
       /\ Len(fileSystem[i].content) > 0
       /\ IsImageName(fileSystem[j].name)
       /\ ~fileSystem[j].isLoaded
       /\ activeFileId = fileSystem[j].id

\* C25: every object URL created by the loadAssets effect and not released
\* is a URL of the current assets map
C25_LiveUrlsAreCurrent ==
  \A u \in 1..fn.created :
    u \notin fn.released => \E a \in fn.assets : a.url = u

\* C26: no step changes the type or the parentId of an item that stays in
\* the Tree Store under its id, and no item of the Tree Store is on its own
\* parentId chain
C26_IdentityIsFrozen ==
  [][/\ \A i \in 1..Len(fileSystem) : \A j \in 1..Len(fileSystem') :
          fileSystem[i].id = fileSystem'[j].id
            => /\ fileSystem'[j].type = fileSystem[i].type
               /\ fileSystem'[j].parentId = fileSystem[i].parentId
     /\ \A j \in 1..Len(fileSystem') :
          fileSystem'[j].id \notin AncestorsOf(fileSystem', fileSystem'[j])]_vars

\* a folder that holds an item has been renamed in disk mode
C26_Witness ==
  /\ last.label = "rename_ok"
  /\ isLocalMode
  /\ \E i, j \in 1..Len(fileSystem) :
       /\ fileSystem[i].id = last.op.id
       /\ fileSystem[i].type = "folder"
       /\ fileSystem[i].name = last.op.name
       /\ fileSystem[j].parentId = last.op.id

\* C27: the active id is null or the id of an item of the Tree Store
C27_ActiveIdNamesAnItem ==
  activeFileId = 0 \/ HasId(fileSystem, activeFileId)

\* C28: the step in which handleDeleteItem applies its removal leaves the
\* Tree Store of that moment without the target and the items below it, the
\* other items as they are
C28_DeleteAppliesToCurrentStore ==
  [][last'.label = "delete_ok"
       => fileSystem' = deleteItemRecursive(fileSystem, last'.op.id)]_vars

\* C29: a text typed into the editor that has not yet been handed to
\* onUpdate is still the localContent of the Editor of the item it was typed
\* in, as long as that item is in the Tree Store: the debounce can still
\* apply it
C29_TypedTextIsKept ==
  (fn.unsaved.id # 0 /\ HasId(fileSystem, fn.unsaved.id)) =>
    /\ fn.editor.id = fn.unsaved.id
    /\ fn.editor.localContent = fn.unsaved.text

\* C30: in disk mode the loading flag is set, and so the editor is not
\* shown, while the active file is not loaded and the read that
\* handleFileSelect started for it is in flight
C30_LoadingWhileReadInFlight ==
  (/\ isLocalMode
   /\ HasId(fileSystem, activeFileId)
   /\ ~FindItem(fileSystem, activeFileId).isLoaded
   /\ \E k \in 1..Len(pending) :
        /\ pending[k].kind = "select"
        /\ pending[k].id = activeFileId)
    => isLoadingFile /\ ~EditorShown

====
